---- MODULE Spec2Model ----
(***************************************************************************)
(* Campaign lifecycle of the advertising marketplace.                      *)
(*                                                                         *)
(* The frontend (CampaignActions and its four dialogs, the campaign page)  *)
(* is modelled from the sources.  The backend that the dialogs call        *)
(* through campaignsApi is not part of the sources: the Campaign Lifecycle *)
(* Manager is modelled from spec.md, sections 3, 4.1, 5 and 7.             *)
(*                                                                         *)
(* Strings are modelled by what the schemas read of them: a reason or a    *)
(* note by its length, a proof URL by a token that is empty, not a URL, or *)
(* a URL.  Money is kept in hundredths of the currency unit, so that a     *)
(* percentage of an integer budget is exact.                               *)
(***************************************************************************)
EXTENDS Integers, Sequences, FiniteSets, Bags, TLC

(***************************************************************************)
(* Bounds of the model.                                                    *)
(***************************************************************************)
MaxBudget == 1          \* budgets 1..MaxBudget, and the scenario's 10000
MaxInFlight == 2        \* requests in flight at once

(***************************************************************************)
(* Program constants.                                                      *)
(***************************************************************************)
MinReasonLen == 10      \* z.string().min(10, ...)
MaxReasonLen == 500     \* .max(500, ...)
MaxNotesLen == 500      \* owner_notes: z.string().max(500, ...)
PercentBase == 100      \* platform_commission_percent / 100

Undefined == 0 - 1      \* an optional field that is not given

UserTypes == {"seller", "channel_owner", "admin"}
Statuses ==
  {"pending", "accepted", "rejected", "in_progress", "completed", "disputed",
   "cancelled"}
ProofTypes == {"screenshot", "post_link", "other"}
Decisions == {"refund", "release_payment", "partial_refund"}
Terminal == {"completed", "rejected", "cancelled"}

Budgets == (1..MaxBudget) \cup {10000}
Percents == {0, 10}
\* The budgets and the percentages of the commission arithmetic.
SplitBudgets == Budgets \cup {3, 99}
CommissionPercents == 0..PercentBase
ReasonLens == {0, MinReasonLen - 1, MinReasonLen, MaxReasonLen + 1}
NotesLens == {0, MaxNotesLen + 1}
Urls == {"", "not a url", "https://x"}

IsUrl(u) == u = "https://x"

(***************************************************************************)
(* The zod schemas of the dialogs.  A schema is TRUE of the form data that *)
(* handleSubmit lets through to onSubmit.                                  *)
(***************************************************************************)
acceptSchema(data) ==
  data.owner_notes = Undefined \/ data.owner_notes <= MaxNotesLen

\* Mutant: any non-empty reason passes.
rejectSchemaNonEmpty(data) ==
  /\ data.reason # Undefined
  /\ data.reason >= 1
  /\ data.reason <= MaxReasonLen

rejectSchema(data) ==
  /\ data.reason # Undefined
  /\ data.reason >= MinReasonLen
  /\ data.reason <= MaxReasonLen

\* Mutant: the proof URL is an optional string.
submitSchemaAnyUrl(data) ==
  /\ data.placement_proof_type \in ProofTypes
  /\ (data.owner_notes = Undefined \/ data.owner_notes <= MaxNotesLen)

submitSchema(data) ==
  /\ IsUrl(data.placement_proof_url)
  /\ data.placement_proof_url # ""
  /\ data.placement_proof_type \in ProofTypes
  /\ (data.owner_notes = Undefined \/ data.owner_notes <= MaxNotesLen)

\* Mutant: the refinement that asks a dispute for its reason is missing.
confirmSchemaNoRefine(data) ==
  /\ data.confirmed \in BOOLEAN
  /\ (data.reason = Undefined \/ data.reason >= MinReasonLen)

confirmSchema(data) ==
  /\ data.confirmed \in BOOLEAN
  /\ (data.reason = Undefined \/ data.reason >= MinReasonLen)
  /\ (~data.confirmed => (data.reason # Undefined /\ data.reason >= MinReasonLen))

(***************************************************************************)
(* CampaignActions: the actions the component renders for a campaign and a *)
(* user type.  "confirm" is the Review & Confirm button, whose dialog both *)
(* confirms and opens a dispute.                                           *)
(***************************************************************************)
Actions == {"accept", "reject", "submit", "cancel", "confirm"}

\* Mutant: Submit Placement stays offered once the placement is submitted.
CampaignActionsResubmit(campaign, userType) ==
  IF userType = "channel_owner" /\ campaign.status = "pending"
    THEN {"accept", "reject"}
  ELSE IF userType = "channel_owner"
          /\ campaign.status \in {"accepted", "in_progress"}
    THEN {"submit"}
  ELSE IF userType = "seller" /\ campaign.status = "pending"
    THEN {"cancel"}
  ELSE IF /\ userType = "seller"
          /\ campaign.status = "in_progress"
          /\ campaign.owner_submitted_at # 0
    THEN {"confirm"}
  ELSE {}

\* Mutant: the pending branch is not told apart by user type.
CampaignActionsAnyRole(campaign, userType) ==
  IF userType \in {"channel_owner", "seller"} /\ campaign.status = "pending"
    THEN {"accept", "reject", "cancel"}
  ELSE IF userType = "channel_owner" /\ campaign.status = "accepted"
    THEN {"submit"}
  ELSE IF /\ userType = "seller"
          /\ campaign.status = "in_progress"
          /\ campaign.owner_submitted_at # 0
    THEN {"confirm"}
  ELSE {}

\* Mutant: the accepted branch is missing.
CampaignActionsNoSubmit(campaign, userType) ==
  IF userType = "channel_owner" /\ campaign.status = "pending"
    THEN {"accept", "reject"}
  ELSE IF userType = "seller" /\ campaign.status = "pending"
    THEN {"cancel"}
  ELSE IF /\ userType = "seller"
          /\ campaign.status = "in_progress"
          /\ campaign.owner_submitted_at # 0
    THEN {"confirm"}
  ELSE {}

\* Mutant: Review & Confirm is offered whenever the placement was submitted.
CampaignActionsConfirmAgain(campaign, userType) ==
  IF userType = "channel_owner" /\ campaign.status = "pending"
    THEN {"accept", "reject"}
  ELSE IF userType = "channel_owner" /\ campaign.status = "accepted"
    THEN {"submit"}
  ELSE IF userType = "seller" /\ campaign.status = "pending"
    THEN {"cancel"}
  ELSE IF userType = "seller" /\ campaign.owner_submitted_at # 0
    THEN {"confirm"}
  ELSE {}

\* Mutant: Review & Confirm does not wait for the placement to be submitted.
CampaignActionsConfirmUnsubmitted(campaign, userType) ==
  IF userType = "channel_owner" /\ campaign.status = "pending"
    THEN {"accept", "reject"}
  ELSE IF userType = "channel_owner" /\ campaign.status = "accepted"
    THEN {"submit"}
  ELSE IF userType = "seller" /\ campaign.status = "pending"
    THEN {"cancel"}
  ELSE IF userType = "seller" /\ campaign.status \in {"accepted", "in_progress"}
    THEN {"confirm"}
  ELSE {}

CampaignActions(campaign, userType) ==
  IF userType = "channel_owner" /\ campaign.status = "pending"
    THEN {"accept", "reject"}
  ELSE IF userType = "channel_owner" /\ campaign.status = "accepted"
    THEN {"submit"}
  ELSE IF userType = "seller" /\ campaign.status = "pending"
    THEN {"cancel"}
  ELSE IF /\ userType = "seller"
          /\ campaign.status = "in_progress"
          /\ campaign.owner_submitted_at # 0
    THEN {"confirm"}
  ELSE {}

(***************************************************************************)
(* The amounts ConfirmCampaignDialog and CampaignDetails show, in          *)
(* hundredths: budget * (percent / 100) is budget * percent hundredths.    *)
(***************************************************************************)
commission(campaign) == campaign.budget * campaign.platform_commission_percent

\* Mutant: the percentage itself is subtracted, not that share of the budget.
paymentAmountLessPercent(campaign) ==
  campaign.budget * PercentBase - campaign.platform_commission_percent * PercentBase

paymentAmount(campaign) == campaign.budget * PercentBase - commission(campaign)

\* CampaignDetails: budget * percent / 100.
detailsCommission(campaign) ==
  campaign.budget * campaign.platform_commission_percent

\* ConfirmCampaignDialog renders its Placement Proof section.
ProofShown(campaign) == campaign.placement_proof_url # ""

(***************************************************************************)
(* The Campaign Lifecycle Manager (spec.md 4.1): the transition table.     *)
(* An operation is one of Ops; confirm with confirmed = FALSE is the       *)
(* dispute.                                                                *)
(***************************************************************************)
Ops == {"accept", "reject", "cancel", "submit", "confirm", "resolve"}

RoleOf(op) ==
  CASE op \in {"accept", "reject", "submit"} -> "channel_owner"
    [] op \in {"cancel", "confirm"} -> "seller"
    [] op = "resolve" -> "admin"

FromStatus(op) ==
  CASE op \in {"accept", "reject", "cancel"} -> "pending"
    [] op = "submit" -> "accepted"
    [] op = "confirm" -> "in_progress"
    [] op = "resolve" -> "disputed"

\* The statuses an operation may move the campaign to.
ToStatuses(op, p) ==
  CASE op = "accept" -> {"accepted"}
    [] op = "reject" -> {"rejected"}
    [] op = "cancel" -> {"cancelled"}
    [] op = "submit" -> {"in_progress"}
    [] op = "confirm" -> IF p.confirmed THEN {"completed"} ELSE {"disputed"}
    [] op = "resolve" ->
         CASE p.decision = "refund" -> {"cancelled"}
           [] p.decision = "release_payment" -> {"completed"}
           [] OTHER -> {"completed", "cancelled"}

\* The data that must accompany a transition.
PayloadValid(c, op, p) ==
  CASE op = "reject" -> p.reason # Undefined /\ p.reason >= MinReasonLen
    [] op = "submit" ->
         p.placement_proof_url # "" /\ p.placement_proof_type \in ProofTypes
    [] op = "confirm" ->
         /\ c.owner_submitted_at # 0
         /\ (~p.confirmed => (p.reason # Undefined /\ p.reason >= MinReasonLen))
    [] op = "resolve" ->
         /\ p.decision \in Decisions
         /\ (p.decision = "partial_refund" =>
               (p.refund_amount # Undefined /\ p.refund_amount >= 0
                  /\ p.refund_amount <= c.budget))
    [] OTHER -> TRUE

\* The typed error of a request, or "ok" when every precondition holds.
Precondition(c, role, op, p) ==
  IF role # RoleOf(op) THEN "Unauthorized"
  ELSE IF c.status # FromStatus(op) THEN "InvalidTransition"
  ELSE IF ~PayloadValid(c, op, p) THEN "ValidationError"
  ELSE "ok"

\* The fund movement of a transition (hundredths): refund, release, commission.
Refund(f) ==
  [f EXCEPT !.held = 0, !.refunded = @ + f.held, !.nRefund = @ + 1,
            !.moves = @ + 1]

Release(f, c) ==
  [f EXCEPT !.held = 0,
            !.released = @ + c.budget * (PercentBase - c.platform_commission_percent),
            !.commission = @ + c.budget * c.platform_commission_percent,
            !.nRelease = @ + 1, !.moves = @ + 1]

ReleaseFull(f) ==
  [f EXCEPT !.held = 0, !.released = @ + f.held, !.nRelease = @ + 1,
            !.moves = @ + 1]

Split(f, amount) ==
  [f EXCEPT !.held = 0,
            !.refunded = @ + amount * PercentBase,
            !.released = @ + (f.held - amount * PercentBase),
            !.nRefund = @ + (IF amount > 0 THEN 1 ELSE 0),
            !.nRelease = @ + (IF amount * PercentBase < f.held THEN 1 ELSE 0),
            !.moves = @ + 1]

\* Mutant: a cancellation moves no funds.
MoveFundsCancelKeepsHold(f, c, op, p) ==
  CASE op = "reject" -> Refund(f)
    [] op = "confirm" /\ p.confirmed -> Release(f, c)
    [] op = "resolve" /\ p.decision = "refund" -> Refund(f)
    [] op = "resolve" /\ p.decision = "release_payment" -> ReleaseFull(f)
    [] op = "resolve" /\ p.decision = "partial_refund" -> Split(f, p.refund_amount)
    [] OTHER -> f

MoveFunds(f, c, op, p) ==
  CASE op \in {"reject", "cancel"} -> Refund(f)
    [] op = "confirm" /\ p.confirmed -> Release(f, c)
    [] op = "resolve" /\ p.decision = "refund" -> Refund(f)
    [] op = "resolve" /\ p.decision = "release_payment" -> ReleaseFull(f)
    [] op = "resolve" /\ p.decision = "partial_refund" -> Split(f, p.refund_amount)
    [] OTHER -> f

\* The campaign record after a transition to status `to` at time t.
Transition(c, op, p, to, t) ==
  CASE op = "accept" ->
         [c EXCEPT !.status = to,
                   !.owner_notes = IF p.owner_notes = Undefined THEN @ ELSE p.owner_notes]
    [] op = "reject" -> [c EXCEPT !.status = to, !.owner_notes = p.reason]
    [] op = "cancel" -> [c EXCEPT !.status = to]
    [] op = "submit" ->
         [c EXCEPT !.status = to,
                   !.placement_proof_url = p.placement_proof_url,
                   !.placement_proof_type = p.placement_proof_type,
                   !.owner_notes = IF p.owner_notes = Undefined THEN @ ELSE p.owner_notes,
                   !.owner_submitted_at = t]
    [] op = "confirm" ->
         IF p.confirmed
           THEN [c EXCEPT !.status = to, !.seller_confirmed_at = t,
                          !.actual_completion_date = t]
           ELSE [c EXCEPT !.status = to, !.seller_notes = p.reason]
    [] op = "resolve" ->
         [c EXCEPT !.status = to,
                   !.actual_completion_date = IF to = "completed" THEN t ELSE @]

(***************************************************************************)
(* CampaignTimeline: the date and the completed mark of the milestone      *)
(* steps (0: no date).                                                     *)
(***************************************************************************)
TimelineIds == {"submitted", "confirmed", "completed"}

\* Mutant: a milestone shows its date only while the campaign is active.
StepDateWhileActive(campaign, id) ==
  IF campaign.status \in Terminal THEN 0
  ELSE CASE id = "submitted" -> campaign.owner_submitted_at
         [] id = "confirmed" -> campaign.seller_confirmed_at
         [] id = "completed" ->
              IF campaign.actual_completion_date # 0
                THEN campaign.actual_completion_date
                ELSE campaign.seller_confirmed_at

StepDate(campaign, id) ==
  CASE id = "submitted" -> campaign.owner_submitted_at
    [] id = "confirmed" -> campaign.seller_confirmed_at
    [] id = "completed" ->
         IF campaign.actual_completion_date # 0
           THEN campaign.actual_completion_date
           ELSE campaign.seller_confirmed_at

\* The steps array, in its order.
TimelineSteps == <<"created", "accepted", "submitted", "confirmed", "completed">>

StepCompleted(campaign, id) ==
  CASE id = "created" -> TRUE
    [] id = "accepted" ->
         \/ campaign.status \in {"accepted", "in_progress", "completed"}
         \/ campaign.status \in {"rejected", "cancelled"}
    [] id = "submitted" -> campaign.owner_submitted_at # 0
    [] id = "confirmed" -> campaign.seller_confirmed_at # 0
    [] id = "completed" -> campaign.status = "completed"

(***************************************************************************)
(* DisputeDetailsPage.handleResolve: the request built from the decision   *)
(* of the RadioGroup and the number typed as refund amount.               *)
(***************************************************************************)
\* Mutant: the refund amount is not passed on.
handleResolveNoAmount(decision, refundAmount) ==
  [reason |-> Undefined, owner_notes |-> Undefined,
   placement_proof_url |-> "", placement_proof_type |-> "",
   confirmed |-> TRUE, decision |-> decision, refund_amount |-> Undefined]

handleResolve(decision, refundAmount) ==
  [reason |-> Undefined, owner_notes |-> Undefined,
   placement_proof_url |-> "", placement_proof_type |-> "",
   confirmed |-> TRUE, decision |-> decision,
   refund_amount |-> IF decision = "partial_refund" THEN refundAmount
                     ELSE Undefined]

(***************************************************************************)
(* The protected layouts.  A layout's render gives what it shows, its      *)
(* effect the path it navigates to ("" when it stays).  store is the auth  *)
(* store (user, isAuthenticated), token whether localStorage holds an      *)
(* access_token.                                                           *)
(***************************************************************************)
Users == {"seller", "channel_owner", "admin"}
NoUser == "none"
Paths ==
  {"/login", "/", "/seller/dashboard", "/channel/dashboard", "/admin/dashboard",
   "/channel_owner/dashboard"}

\* The route group a path is rendered in.
LayoutOf(path) ==
  IF path = "/seller/dashboard" THEN "seller"
  ELSE IF path = "/channel/dashboard" THEN "channel"
  ELSE "none"

\* `/${user.user_type}/dashboard`
TypeDashboard(user) ==
  IF user = "seller" THEN "/seller/dashboard"
  ELSE IF user = "channel_owner" THEN "/channel_owner/dashboard"
  ELSE "/admin/dashboard"

SellerLayoutEffect(store) ==
  IF ~store.isAuthenticated \/ store.user = NoUser THEN "/login"
  ELSE IF store.user # "seller" THEN TypeDashboard(store.user)
  ELSE ""

SellerLayoutRender(store) ==
  IF ~store.isAuthenticated \/ store.user = NoUser \/ store.user # "seller"
    THEN "null"
    ELSE "children"

ChannelLayoutEffect(token, store) ==
  IF token /\ ~store.isAuthenticated THEN ""
  ELSE IF ~store.isAuthenticated \/ store.user = NoUser THEN "/login"
  ELSE IF store.user # "channel_owner"
    THEN IF store.user = "seller" THEN "/seller/dashboard"
         ELSE IF store.user = "admin" THEN "/admin/dashboard"
         ELSE "/"
  ELSE ""

ChannelLayoutRender(token, store) ==
  IF token /\ (~store.isAuthenticated \/ store.user = NoUser) THEN "loading"
  ELSE IF ~token /\ (~store.isAuthenticated \/ store.user = NoUser) THEN "null"
  ELSE IF store.user # NoUser /\ store.user # "channel_owner" THEN "null"
  ELSE IF store.user = NoUser \/ ~store.isAuthenticated THEN "loading"
  ELSE "children"

LayoutEffect(layout, token, store) ==
  IF layout = "seller" THEN SellerLayoutEffect(store)
  ELSE ChannelLayoutEffect(token, store)

LayoutRender(layout, token, store) ==
  IF layout = "seller" THEN SellerLayoutRender(store)
  ELSE IF layout = "channel" THEN ChannelLayoutRender(token, store)
  ELSE "children"

\* LoginForm's dashboardUrl.
DashboardUrl(user) ==
  IF user = "seller" THEN "/seller/dashboard"
  ELSE IF user = "channel_owner" THEN "/channel/dashboard"
  ELSE "/admin/dashboard"

(***************************************************************************)
(* WithdrawalForm: its schema and the amount field's onChange.  Amounts    *)
(* are whole roubles; an account number is its length.                     *)
(***************************************************************************)
MinWithdrawal == 100
PaymentMethods == {"yoomoney", "sbp", "card_mir", "qiwi"}

withdrawalSchema(data) ==
  /\ data.amount >= MinWithdrawal
  /\ data.payment_method \in PaymentMethods
  /\ data.account_number >= 1

\* Math.min
Min(a, b) == IF a <= b THEN a ELSE b

\* Mutant: the typed value is taken as it is.
amountOnChangeUnclamped(value, maxAmount) == value

\* The amount field's onChange; value is parseFloat(e.target.value) || 0.
amountOnChange(value, maxAmount) == Min(value, maxAmount)

(***************************************************************************)
(* WithdrawalTable: what a row offers, and the notes of the action dialog. *)
(* Notes are "" (empty), " " (white space only) or "x" (text).             *)
(***************************************************************************)
WithdrawalStatuses == {"pending", "processing", "completed", "rejected"}
NotesTexts == {"", " ", "x"}

\* Mutant: nothing is trimmed.
TrimNone(notes) == notes

\* notes.trim()
Trim(notes) == IF notes = " " THEN "" ELSE notes

canApprove(withdrawal) == withdrawal.status = "pending"

canReject(withdrawal) ==
  withdrawal.status = "pending" \/ withdrawal.status = "processing"

\* The confirm button of the action dialog is disabled.
confirmDisabled(t) ==
  t.isProcessing \/ (t.actionType = "reject" /\ Trim(t.notes) = "")

\* No request of the table.
NoAction == [type |-> "", status |-> "", notes |-> ""]

\* confirmAction up to its await or its return: the table's state after it
\* and the request it has sent (NoAction: none).  A return inside try runs
\* the finally.
confirmAction(t) ==
  IF t.selected = "none" \/ t.actionType = "none"
    THEN [t EXCEPT !.sent = NoAction]
  ELSE IF t.actionType = "approve"
    THEN [t EXCEPT !.isProcessing = TRUE,
                   !.sent = [type |-> "approve", status |-> t.selected,
                             notes |-> t.notes]]
  ELSE IF Trim(t.notes) = ""
    THEN [t EXCEPT !.isProcessing = FALSE, !.toast = "error",
                   !.sent = NoAction]
  ELSE [t EXCEPT !.isProcessing = TRUE,
                 !.sent = [type |-> "reject", status |-> t.selected,
                           notes |-> t.notes]]

\* parseFloat of what the refund amount field holds; the text of an
\* <input type="number"> is empty (<<>>) or the decimal text of a number n
\* (<<n>>).
NaN == 0 - 2

parseFloat(text) == IF text = <<>> THEN NaN ELSE text[1]

\* The Resolve button of the dialog is disabled.
resolveDisabled(d) == d.isProcessing \/ Trim(d.notes) = ""

(***************************************************************************)
(* CreateCampaignForm: the form's schema and its balance check.  A date is *)
(* the day number of the input's yyyy-MM-dd string, NoDate the empty       *)
(* string; strings without structure are their lengths.                    *)
(***************************************************************************)
MinCreativeLen == 10
MaxCreativeLen == 2000
NoDate == 0
Days == {1, 2}
AdFormats == {"post", "story", "video", "integration"}

\* end > start on two Date objects: an invalid date compares false.
DateAfter(end, start) == end # NoDate /\ start # NoDate /\ end > start

\* Mutant: the end date may equal the start date.
createCampaignSchemaNotBefore(data) ==
  /\ data.channel_id >= 1
  /\ data.budget >= 1
  /\ data.start_date # NoDate
  /\ data.end_date # NoDate
  /\ data.ad_format \in AdFormats
  /\ data.creative_text >= MinCreativeLen
  /\ data.creative_text <= MaxCreativeLen
  /\ (data.creative_video_url = "" \/ IsUrl(data.creative_video_url))
  /\ data.end_date >= data.start_date

createCampaignSchema(data) ==
  /\ data.channel_id >= 1
  /\ data.budget >= 1
  /\ data.start_date # NoDate
  /\ data.end_date # NoDate
  /\ data.ad_format \in AdFormats
  /\ data.creative_text >= MinCreativeLen
  /\ data.creative_text <= MaxCreativeLen
  /\ (data.creative_video_url = "" \/ IsUrl(data.creative_video_url))
  /\ DateAfter(data.end_date, data.start_date)

\* Mutant: a balance that is not loaded yet counts as enough.
hasEnoughBalanceUnloaded(balance, selectedBudget) ==
  balance = Undefined \/ balance >= selectedBudget

\* balance is Undefined (null) until getBalance has answered.
hasEnoughBalance(balance, selectedBudget) ==
  balance # Undefined /\ balance >= selectedBudget

\* What createCampaign validates of a request (spec.md 3: budget positive,
\* end strictly after start).
CreateValid(data) ==
  /\ data.budget >= 1
  /\ DateAfter(data.end_date, data.start_date)

(***************************************************************************)
(* State.                                                                  *)
(*   campaign, funds, now, log : the campaign record, its escrow, the      *)
(*       server clock and the list of status changes made so far           *)
(*   uiReq  : the request of each CampaignActions control (its isLoading)  *)
(*   apiReq : the requests made directly against the API that wait for     *)
(*            their update (a bag: two callers may send the same request)  *)
(*   resp   : the response to a direct call, until its caller takes it     *)
(*   view   : the campaign as each page last fetched it (useCampaignById)  *)
(*   ui     : the dialog each client has open and its last toast           *)
(*   tx     : the writes staged by the transaction of an update            *)
(*   create : CreateCampaignForm's balance, its request and its toast      *)
(*   auth   : localStorage's token, the auth store, the page and its layout *)
(*   ws     : the socket, its notification handlers and useWebSocket's ref  *)
(*   again  : the request of a further click on Cancel Campaign             *)
(*   wd     : WithdrawalForm: balance, amount, account, request            *)
(*   wt     : WithdrawalTable: the row, the dialog, the request            *)
(*   dp     : DisputeDetailsPage: the resolve dialog and its request       *)
(***************************************************************************)
VARIABLES campaign, funds, now, log, uiReq, apiReq, resp, view, ui, tx, create,
          auth, ws, again, wd, wt, dp

vars ==
  <<campaign, funds, now, log, uiReq, apiReq, resp, view, ui, tx, create,
    auth, ws, again, wd, wt, dp>>

\* The state of the parts that the lifecycle's own steps leave alone.
sideVars == <<tx, create, auth, ws, again, wd, wt, dp>>

Clients == {"seller", "channel_owner"}

NoCampaign ==
  [status |-> "none", budget |-> 0, platform_commission_percent |-> 0,
   owner_notes |-> 0, seller_notes |-> 0,
   placement_proof_url |-> "", placement_proof_type |-> "",
   owner_submitted_at |-> 0, seller_confirmed_at |-> 0,
   actual_completion_date |-> 0]

NoFunds ==
  [held |-> 0, refunded |-> 0, released |-> 0, commission |-> 0,
   nRefund |-> 0, nRelease |-> 0, moves |-> 0]

NoPayload ==
  [reason |-> Undefined, owner_notes |-> Undefined,
   placement_proof_url |-> "", placement_proof_type |-> "",
   confirmed |-> TRUE, decision |-> "", refund_amount |-> Undefined]

Idle == [phase |-> "idle", role |-> "", op |-> "", p |-> NoPayload, result |-> ""]

\* What the components read of a fetched campaign.
Fetched(c) ==
  [status |-> c.status, budget |-> c.budget,
   platform_commission_percent |-> c.platform_commission_percent,
   owner_submitted_at |-> c.owner_submitted_at,
   placement_proof_url |-> c.placement_proof_url]

\* The user type whose CampaignActions renders the control.
ClientOf(a) == IF a \in {"cancel", "confirm"} THEN "seller" ELSE "channel_owner"

\* The lifecycle operation a control calls.
OpOf(a) == a

InFlight ==
  Cardinality({a \in Actions : uiReq[a].phase # "idle"})
    + BagCardinality(apiReq)
    + (IF again.phase # "idle" THEN 1 ELSE 0)

\* No transaction is open.
NoTx == [phase |-> "none", r |-> Idle, funds |-> NoFunds, campaign |-> NoCampaign]

\* The auth store as a page load leaves it.
NoStore == [user |-> NoUser, isAuthenticated |-> FALSE, isLoading |-> FALSE]

\* An effect that has not run yet has no dependencies to compare with.
NoDeps == <<>>

\* A browser with no token, at the login page.  session is the user the
\* token stands for on the server (NoUser: no valid session); init is
\* AuthInitializer's progress and asked the session of the token its
\* getCurrentUser was sent with, form LoginForm's progress; deps are the
\* dependencies the layout's effect last ran with.
NoAuth ==
  [token |-> FALSE, session |-> NoUser, store |-> NoStore, init |-> "mounted",
   asked |-> NoUser, form |-> "idle", path |-> "/login", nav |-> "load",
   deps |-> NoDeps]

\* No socket: handlers are the registered notification handlers, ref is
\* notificationHandlerRef.current (0: null), live whether the effect's last
\* run returned a cleanup, toasts the toasts the last notification made.
NoSocket ==
  [connected |-> FALSE, handlers |-> {}, ref |-> 0, live |-> FALSE,
   deps |-> NoDeps, toasts |-> Undefined]

\* WithdrawalForm not mounted.  deps is the maxAmount its effect last ran
\* with, sent the amount of the request in flight.
NoWithdrawal ==
  [mounted |-> FALSE, availableBalance |-> 0, amount |-> MinWithdrawal,
   account_number |-> 0, deps |-> Undefined, phase |-> "idle",
   sent |-> Undefined]

\* WithdrawalTable as mounted: row is the status of the withdrawal as the
\* withdrawals prop gives it, selected the status of selectedWithdrawal
\* ("none": null), sent the request in flight.
NoTable ==
  [row |-> "pending", selected |-> "none", actionType |-> "none",
   open |-> FALSE, notes |-> "", isProcessing |-> FALSE, toast |-> "none",
   sent |-> NoAction]

\* No resolveDispute request.
NoResolve == [payload |-> NoPayload, notes |-> ""]

\* DisputeDetailsPage as mounted: budget is campaign.budget (Undefined until
\* useCampaignById has answered), sent the request in flight.
NoDisputePage ==
  [budget |-> Undefined, open |-> FALSE, decision |-> "refund",
   notes |-> "", refundAmount |-> <<>>, isProcessing |-> FALSE,
   left |-> FALSE, sent |-> NoResolve]

\* The form's defaultValues, but for the dates (today and a week later).
NoData ==
  [channel_id |-> 0, budget |-> 0, start_date |-> NoDate, end_date |-> NoDate,
   ad_format |-> "post", creative_text |-> 0, creative_video_url |-> ""]

\* The form as mounted: balance not loaded, nothing sent.
NoCreate ==
  [balance |-> Undefined, phase |-> "idle", via |-> "", data |-> NoData,
   result |-> "", toast |-> "none"]

Init ==
  /\ campaign = NoCampaign
  /\ funds = NoFunds
  /\ now = 1
  /\ log = <<>>
  /\ uiReq = [a \in Actions |-> Idle]
  /\ apiReq = EmptyBag
  /\ resp = Idle
  /\ view = [c \in Clients |-> Fetched(NoCampaign)]
  /\ ui = [c \in Clients |-> [open |-> "none", toast |-> "none"]]
  /\ tx = NoTx
  /\ create = NoCreate
  /\ auth = NoAuth
  /\ ws = NoSocket
  /\ again = Idle
  /\ wd = NoWithdrawal
  /\ wt = NoTable
  /\ dp = NoDisputePage

(***************************************************************************)
(* The lifecycle manager's operations.                                     *)
(***************************************************************************)
\* createCampaign: status pending, the budget held.
createCampaign(budget, percent) ==
  /\ campaign.status = "none"
  /\ budget >= 1
  /\ campaign' = [NoCampaign EXCEPT !.status = "pending", !.budget = budget,
                                    !.platform_commission_percent = percent]
  /\ funds' = [NoFunds EXCEPT !.held = budget * PercentBase]
  /\ now' = now + 1
  /\ UNCHANGED <<log, uiReq, apiReq, resp, view, ui>>
  /\ UNCHANGED sideVars

\* A request as the server takes it up: its preconditions are checked against
\* the campaign as it is now; a request that passes waits for its update, and
\* one that fails is answered with its error (a ValidationError with the
\* payload it refuses).
Received(role, op, p) ==
  LET res == Precondition(campaign, role, op, p)
  IN  [phase |-> IF res = "ok" THEN "validated" ELSE "done",
       role |-> role, op |-> op,
       p |-> IF res \in {"ok", "ValidationError"} THEN p ELSE NoPayload,
       result |-> IF res = "ok" THEN "" ELSE res]

\* Mutant: the update is applied without looking at the status again.
UpdateBlind(r, done) ==
  \E to \in ToStatuses(r.op, r.p) :
    /\ campaign' = Transition(campaign, r.op, r.p, to, now)
    /\ funds' = MoveFunds(funds, campaign, r.op, r.p)
    /\ now' = now + 1
    /\ log' = Append(log, <<campaign.status, to>>)
    /\ done = [r EXCEPT !.phase = "done", !.result = "ok"]

\* The conditional update of a validated request r: applied, with its fund
\* movement, when the status is still the one checked; Conflict otherwise.
Update(r, done) ==
  IF campaign.status = FromStatus(r.op)
    THEN \E to \in ToStatuses(r.op, r.p) :
           /\ campaign' = Transition(campaign, r.op, r.p, to, now)
           /\ funds' = MoveFunds(funds, campaign, r.op, r.p)
           /\ now' = now + 1
           /\ log' = Append(log, <<campaign.status, to>>)
           /\ done = [r EXCEPT !.phase = "done", !.result = "ok"]
    ELSE /\ done = [r EXCEPT !.phase = "done", !.result = "Conflict"]
         /\ UNCHANGED <<campaign, funds, now, log>>

\* No response to a direct call is waiting to be taken.  A response has no
\* effect on anything else, so the caller takes it before the next step.
NoResponse == resp.phase = "idle"

CommitUi(a) ==
  /\ uiReq[a].phase = "validated"
  /\ \E done \in {[uiReq[a] EXCEPT !.phase = "done", !.result = x] :
                    x \in {"ok", "Conflict"}} :
       /\ Update(uiReq[a], done)
       /\ uiReq' = [uiReq EXCEPT ![a] = done]
  /\ UNCHANGED <<apiReq, resp, view, ui>>
  /\ UNCHANGED sideVars

CommitApi(r) ==
  /\ NoResponse
  /\ BagIn(r, apiReq)
  /\ \E done \in {[r EXCEPT !.phase = "done", !.result = x] :
                    x \in {"ok", "Conflict"}} :
       /\ Update(r, done)
       /\ resp' = done
  /\ apiReq' = apiReq (-) SetToBag({r})
  /\ UNCHANGED <<uiReq, view, ui>>
  /\ UNCHANGED sideVars

\* The payloads a direct caller of the API may send with an operation.
ApiPayloads(op) ==
  CASE op = "accept" -> {[NoPayload EXCEPT !.owner_notes = n] : n \in {Undefined, 1}}
    [] op = "reject" ->
         {[NoPayload EXCEPT !.reason = n] :
            n \in {Undefined, MinReasonLen - 1, MinReasonLen}}
    [] op = "cancel" -> {NoPayload}
    [] op = "submit" ->
         {[NoPayload EXCEPT !.placement_proof_url = u,
                            !.placement_proof_type = "screenshot"] : u \in Urls}
           \cup {[NoPayload EXCEPT !.placement_proof_url = "https://x",
                                   !.placement_proof_type = t] :
                   t \in {"post_link", "video"}}
    [] op = "confirm" ->
         {NoPayload}
           \cup {[NoPayload EXCEPT !.confirmed = FALSE, !.reason = n] :
                   n \in {Undefined, MinReasonLen - 1, MinReasonLen}}
    [] op = "resolve" ->
         {[NoPayload EXCEPT !.decision = d] :
            d \in {"refund", "release_payment", "other"}}
           \cup {[NoPayload EXCEPT !.decision = "partial_refund",
                                   !.refund_amount = m] :
                   m \in {Undefined, 0, 1, campaign.budget + 1}}

\* A request made directly against the API by a caller of any role.
ApiCall(role, op, p) ==
  /\ campaign.status # "none"
  /\ NoResponse
  /\ InFlight < MaxInFlight
  /\ LET r == Received(role, op, p)
     IN  IF r.phase = "validated"
           THEN apiReq' = apiReq (+) SetToBag({r}) /\ UNCHANGED resp
           ELSE resp' = r /\ UNCHANGED apiReq
  /\ UNCHANGED <<campaign, funds, now, log, uiReq, view, ui>>
  /\ UNCHANGED sideVars

\* The caller takes the response.
ApiReturn ==
  /\ resp.phase = "done"
  /\ resp' = Idle
  /\ UNCHANGED <<campaign, funds, now, log, uiReq, apiReq, view, ui>>
  /\ UNCHANGED sideVars

(***************************************************************************)
(* The frontend.                                                           *)
(***************************************************************************)
\* The page's query delivers the campaign: on mount, on window focus, and
\* after the refetch() that onActionComplete asks for.
Refetch(c) ==
  /\ view[c] # Fetched(campaign)
  /\ view' = [view EXCEPT ![c] = Fetched(campaign)]
  /\ UNCHANGED <<campaign, funds, now, log, uiReq, apiReq, resp, ui>>
  /\ UNCHANGED sideVars

\* A button of CampaignActions opens its dialog.
OpenDialog(c, a) ==
  /\ a \in CampaignActions(view[c], c)
  /\ a # "cancel"
  /\ ui[c].open = "none"
  /\ ui' = [ui EXCEPT ![c].open = a]
  /\ UNCHANGED <<campaign, funds, now, log, uiReq, apiReq, resp, view>>
  /\ UNCHANGED sideVars

\* onOpenChange(false): the dialog's Cancel button, Escape, a click outside.
CloseDialog(c) ==
  /\ ui[c].open # "none"
  /\ ui' = [ui EXCEPT ![c].open = "none"]
  /\ UNCHANGED <<campaign, funds, now, log, uiReq, apiReq, resp, view>>
  /\ UNCHANGED sideVars

\* The dialog of control a is rendered, open, and its submit button enabled.
CanSubmit(a) ==
  /\ a \in CampaignActions(view[ClientOf(a)], ClientOf(a))
  /\ ui[ClientOf(a)].open = a
  /\ uiReq[a].phase = "idle"

\* form.handleSubmit(onSubmit): onSubmit runs only with data the schema
\* accepts, and sends the request with payload p; with other data the form
\* shows its message, nothing is sent and nothing changes.
HandleSubmit(a, valid, p) ==
  /\ valid
  /\ InFlight < MaxInFlight
  /\ uiReq' = [uiReq EXCEPT ![a] = Received(ClientOf(a), OpOf(a), p)]
  /\ UNCHANGED ui

\* Mutant: the failure path reports success like the success path.
SettledAsSuccess(a) ==
  /\ uiReq[a].phase = "done"
  /\ uiReq' = [uiReq EXCEPT ![a] = Idle]
  /\ ui' = [ui EXCEPT ![ClientOf(a)] =
              [open |-> IF @.open = a THEN "none" ELSE @.open,
               toast |-> "success"]]
  /\ UNCHANGED <<campaign, funds, now, log, apiReq, resp, view>>
  /\ UNCHANGED sideVars

\* Mutant: the failure path sends the request again.
SettledRetries(a) ==
  /\ uiReq[a].phase = "done"
  /\ uiReq' = [uiReq EXCEPT ![a] =
                 IF uiReq[a].result = "ok"
                   THEN Idle
                   ELSE Received(ClientOf(a), OpOf(a), uiReq[a].p)]
  /\ ui' = [ui EXCEPT ![ClientOf(a)] =
              IF uiReq[a].result = "ok"
                THEN [open |-> IF @.open = a THEN "none" ELSE @.open,
                      toast |-> "success"]
                ELSE [@ EXCEPT !.toast = "error"]]
  /\ UNCHANGED <<campaign, funds, now, log, apiReq, resp, view>>
  /\ UNCHANGED sideVars

\* The rest of onSubmit, after the await.  try: toast.success, form.reset,
\* onOpenChange(false), onSuccess (the page's refetch, delivered by Refetch);
\* catch: toast.error; finally: setIsLoading(false).
Settled(a) ==
  /\ uiReq[a].phase = "done"
  /\ uiReq' = [uiReq EXCEPT ![a] = Idle]
  /\ ui' = [ui EXCEPT ![ClientOf(a)] =
              IF uiReq[a].result = "ok"
                THEN [open |-> IF @.open = a THEN "none" ELSE @.open,
                      toast |-> "success"]
                ELSE [@ EXCEPT !.toast = "error"]]
  /\ UNCHANGED <<campaign, funds, now, log, apiReq, resp, view>>
  /\ UNCHANGED sideVars

AcceptForms == {[owner_notes |-> n] : n \in NotesLens}
RejectForms == {[reason |-> n] : n \in ReasonLens}
SubmitForms ==
  {[placement_proof_url |-> u, placement_proof_type |-> t, owner_notes |-> n] :
     u \in Urls, t \in {"screenshot", "other"}, n \in NotesLens}
ConfirmForms == {[confirmed |-> b, reason |-> n] : b \in BOOLEAN, n \in ReasonLens}

\* ConfirmCampaignDialog's defaultValues: confirmed, the reason an empty string.
confirmDefaults == [confirmed |-> TRUE, reason |-> 0]

AcceptOnSubmit(data) ==
  /\ CanSubmit("accept")
  /\ HandleSubmit("accept", acceptSchema(data),
                  [NoPayload EXCEPT !.owner_notes = data.owner_notes])
  /\ UNCHANGED <<campaign, funds, now, log, apiReq, resp, view>>
  /\ UNCHANGED sideVars

RejectOnSubmit(data) ==
  /\ CanSubmit("reject")
  /\ HandleSubmit("reject", rejectSchema(data),
                  [NoPayload EXCEPT !.reason = data.reason])
  /\ UNCHANGED <<campaign, funds, now, log, apiReq, resp, view>>
  /\ UNCHANGED sideVars

SubmitPlacementOnSubmit(data) ==
  /\ CanSubmit("submit")
  /\ HandleSubmit("submit", submitSchema(data),
                  [NoPayload EXCEPT
                     !.placement_proof_url = data.placement_proof_url,
                     !.placement_proof_type = data.placement_proof_type])
  /\ UNCHANGED <<campaign, funds, now, log, apiReq, resp, view>>
  /\ UNCHANGED sideVars

ConfirmOnSubmit(data) ==
  /\ CanSubmit("confirm")
  /\ HandleSubmit("confirm", confirmSchema(data),
                  [NoPayload EXCEPT !.confirmed = data.confirmed])
  /\ UNCHANGED <<campaign, funds, now, log, apiReq, resp, view>>
  /\ UNCHANGED sideVars

\* The seller's Cancel Campaign button, confirm() answered yes.  The button
\* has no loading state of its own; one cancel request at a time is kept.
CancelOnClick ==
  /\ "cancel" \in CampaignActions(view["seller"], "seller")
  /\ uiReq["cancel"].phase = "idle"
  /\ InFlight < MaxInFlight
  /\ uiReq' = [uiReq EXCEPT !["cancel"] = Received("seller", "cancel", NoPayload)]
  /\ UNCHANGED <<campaign, funds, now, log, apiReq, resp, view, ui>>
  /\ UNCHANGED sideVars

\* The lifecycle manager under callers of every role.
Next ==
  \/ \E b \in Budgets, pc \in Percents : createCampaign(b, pc)
  \/ \E role \in UserTypes, op \in Ops :
       \E p \in ApiPayloads(op) : ApiCall(role, op, p)
  \/ \E r \in BagToSet(apiReq) : CommitApi(r)
  \/ ApiReturn

Spec == Init /\ [][Next]_vars

\* The frontend of a seller and of a channel owner against the lifecycle manager.
NextUi ==
  \/ \E b \in Budgets, pc \in Percents : createCampaign(b, pc)
  \/ \E a \in Actions : CommitUi(a)
  \/ \E c \in Clients : Refetch(c)
  \/ \E c \in Clients, a \in Actions : OpenDialog(c, a)
  \/ \E c \in Clients : CloseDialog(c)
  \/ \E data \in AcceptForms : AcceptOnSubmit(data)
  \/ \E data \in RejectForms : RejectOnSubmit(data)
  \/ \E data \in SubmitForms : SubmitPlacementOnSubmit(data)
  \/ \E data \in ConfirmForms : ConfirmOnSubmit(data)
  \/ CancelOnClick
  \/ \E a \in Actions : Settled(a)

SpecUi == Init /\ [][NextUi]_vars

(***************************************************************************)
(* The Cancel Campaign button clicked again.  The button has no loading    *)
(* state and is not disabled: while the request of a click is awaited it   *)
(* stays rendered as long as the page shows the campaign as pending, and a *)
(* further click, confirm() answered yes, sends a further request.         *)
(***************************************************************************)
clickVars == <<apiReq, resp, view, tx, create, auth, ws, wd, wt, dp>>

CancelOnClickAgain ==
  /\ "cancel" \in CampaignActions(view["seller"], "seller")
  /\ uiReq["cancel"].phase # "idle"
  /\ again.phase = "idle"
  /\ InFlight < MaxInFlight
  /\ again' = Received("seller", "cancel", NoPayload)
  /\ UNCHANGED <<campaign, funds, now, log, uiReq, ui>>
  /\ UNCHANGED clickVars

\* The server applies the further request.
CommitAgain ==
  /\ again.phase = "validated"
  /\ \E done \in {[again EXCEPT !.phase = "done", !.result = x] :
                    x \in {"ok", "Conflict"}} :
       /\ Update(again, done)
       /\ again' = done
  /\ UNCHANGED <<uiReq, ui>>
  /\ UNCHANGED clickVars

\* The further click's handler after its await: toast.success and
\* onActionComplete, or toast.error.
SettledAgain ==
  /\ again.phase = "done"
  /\ again' = Idle
  /\ ui' = [ui EXCEPT !["seller"].toast =
              IF again.result = "ok" THEN "success" ELSE "error"]
  /\ UNCHANGED <<campaign, funds, now, log, uiReq>>
  /\ UNCHANGED clickVars

NextClick ==
  \/ NextUi
  \/ CancelOnClickAgain
  \/ CommitAgain
  \/ SettledAgain

SpecClick == Init /\ [][NextClick]_vars

(***************************************************************************)
(* The lifecycle manager serving one request at a time, on campaigns of    *)
(* every commission percentage.                                            *)
(***************************************************************************)
\* A request of the operation's role, checked and applied with no other
\* request in flight.
Serve(op, p) ==
  /\ campaign.status # "none"
  /\ NoResponse
  /\ LET r == Received(RoleOf(op), op, p)
     IN  IF r.phase = "validated"
           THEN \E done \in {[r EXCEPT !.phase = "done", !.result = x] :
                               x \in {"ok", "Conflict"}} :
                  Update(r, done) /\ resp' = done
           ELSE resp' = r /\ UNCHANGED <<campaign, funds, now, log>>
  /\ UNCHANGED <<uiReq, apiReq, view, ui>>
  /\ UNCHANGED sideVars

NextPay ==
  \/ \E b \in SplitBudgets, pc \in CommissionPercents : createCampaign(b, pc)
  \/ \E op \in Ops : \E p \in ApiPayloads(op) : Serve(op, p)
  \/ ApiReturn

SpecPay == Init /\ [][NextPay]_vars

(***************************************************************************)
(* The update as a transaction (spec.md 4.1, failure semantics): the fund  *)
(* movement and the status write are staged, either may fail, and they are *)
(* applied together at the commit.  One request at a time.                 *)
(***************************************************************************)
lifeVars == <<uiReq, apiReq, view, ui, create, auth, ws, again, wd, wt, dp>>

\* A request of the operation's role is checked; one that passes opens its
\* transaction.
TxBegin(op, p) ==
  /\ campaign.status # "none"
  /\ NoResponse
  /\ tx.phase = "none"
  /\ LET r == Received(RoleOf(op), op, p)
     IN  IF r.phase = "validated"
           THEN /\ tx' = [phase |-> "begun", r |-> r, funds |-> funds,
                          campaign |-> campaign]
                /\ UNCHANGED resp
           ELSE resp' = r /\ UNCHANGED tx
  /\ UNCHANGED <<campaign, funds, now, log>>
  /\ UNCHANGED lifeVars

\* Mutant: the fund movement is applied at once, outside the transaction.
TxMoveFundsAtOnce ==
  /\ tx.phase = "begun"
  /\ funds' = MoveFunds(funds, campaign, tx.r.op, tx.r.p)
  /\ tx' = [tx EXCEPT !.phase = "moved", !.funds = funds']
  /\ UNCHANGED <<campaign, now, log, resp>>
  /\ UNCHANGED lifeVars

\* The fund movement succeeds and is staged.
TxMoveFunds ==
  /\ tx.phase = "begun"
  /\ tx' = [tx EXCEPT !.phase = "moved",
                      !.funds = MoveFunds(funds, campaign, tx.r.op, tx.r.p)]
  /\ UNCHANGED <<campaign, funds, now, log, resp>>
  /\ UNCHANGED lifeVars

\* The status write succeeds and is staged.
TxWriteStatus ==
  /\ tx.phase = "moved"
  /\ \E to \in ToStatuses(tx.r.op, tx.r.p) :
       tx' = [tx EXCEPT !.phase = "written",
                        !.campaign = Transition(campaign, tx.r.op, tx.r.p, to, now)]
  /\ UNCHANGED <<campaign, funds, now, log, resp>>
  /\ UNCHANGED lifeVars

\* The fund movement fails, or the status write fails: the transaction is
\* rolled back and the failure reported to the caller.
TxFail ==
  /\ tx.phase \in {"begun", "moved"}
  /\ resp' = [tx.r EXCEPT !.phase = "done",
                          !.result = IF tx.phase = "begun"
                                       THEN "FundMovementFailed"
                                       ELSE "StatusWriteFailed"]
  /\ tx' = NoTx
  /\ UNCHANGED <<campaign, funds, now, log>>
  /\ UNCHANGED lifeVars

\* The commit applies the status and the funds together.
TxCommit ==
  /\ tx.phase = "written"
  /\ campaign' = tx.campaign
  /\ funds' = tx.funds
  /\ now' = now + 1
  /\ log' = Append(log, <<campaign.status, tx.campaign.status>>)
  /\ resp' = [tx.r EXCEPT !.phase = "done", !.result = "ok"]
  /\ tx' = NoTx
  /\ UNCHANGED lifeVars

NextTx ==
  \/ \E b \in Budgets, pc \in Percents : createCampaign(b, pc)
  \/ \E op \in Ops : \E p \in ApiPayloads(op) : TxBegin(op, p)
  \/ TxMoveFunds
  \/ TxWriteStatus
  \/ TxFail
  \/ TxCommit
  \/ ApiReturn

SpecTx == Init /\ [][NextTx]_vars

(***************************************************************************)
(* Creating a campaign: CreateCampaignForm, a direct caller of             *)
(* createCampaign, and the server's handling of the request.               *)
(***************************************************************************)
createVars == <<log, uiReq, apiReq, resp, view, ui, tx, auth, ws, again, wd, wt, dp>>

Balances == {0, 1, 10000}
CreateBudgets == {0} \cup Budgets

\* What the form can hold when it is submitted.
CreateForms ==
  [channel_id : {0, 1}, budget : CreateBudgets, start_date : Days,
   end_date : {NoDate} \cup Days, ad_format : {"post"},
   creative_text : {MinCreativeLen - 1, MinCreativeLen},
   creative_video_url : {"", "not a url"}]

\* getBalance answers; a failed request sets the balance to 0.
getBalance(b) ==
  /\ create.balance = Undefined
  /\ create' = [create EXCEPT !.balance = b]
  /\ UNCHANGED <<campaign, funds, now>>
  /\ UNCHANGED createVars

\* handleSubmit(onSubmit): the resolver first, then the balance check, then
\* the request.  The submit button is disabled while loading or without
\* enough balance.
CreateOnSubmit(data) ==
  /\ create.phase = "idle"
  /\ campaign.status = "none"
  /\ hasEnoughBalance(create.balance, data.budget)
  /\ createCampaignSchema(data)
  /\ create' = [create EXCEPT !.phase = "sent", !.via = "form",
                              !.data = data, !.result = "", !.toast = "none"]
  /\ UNCHANGED <<campaign, funds, now>>
  /\ UNCHANGED createVars

\* A caller of the API that does not go through the form.
ApiCreate(data) ==
  /\ create.phase = "idle"
  /\ campaign.status = "none"
  /\ create' = [create EXCEPT !.phase = "sent", !.via = "api",
                              !.data = data, !.result = "", !.toast = "none"]
  /\ UNCHANGED <<campaign, funds, now>>
  /\ UNCHANGED createVars

\* createCampaign on the server: a valid request makes the campaign,
\* pending with its budget held; an invalid one changes nothing.
CreateServe(percent) ==
  /\ create.phase = "sent"
  /\ campaign.status = "none"
  /\ IF CreateValid(create.data)
       THEN /\ campaign' = [NoCampaign EXCEPT
                              !.status = "pending",
                              !.budget = create.data.budget,
                              !.platform_commission_percent = percent]
            /\ funds' = [NoFunds EXCEPT !.held = create.data.budget * PercentBase]
            /\ now' = now + 1
            /\ create' = [create EXCEPT !.phase = "done", !.result = "ok"]
       ELSE /\ create' = [create EXCEPT !.phase = "done",
                                        !.result = "ValidationError"]
            /\ UNCHANGED <<campaign, funds, now>>
  /\ UNCHANGED createVars

\* The awaited call settles: toast.success and router.push, or toast.error;
\* finally setIsLoading(false).
CreateSettled ==
  /\ create.phase = "done"
  /\ create' = [create EXCEPT
                  !.phase = "idle",
                  !.toast = IF create.via # "form" THEN "none"
                            ELSE IF create.result = "ok" THEN "success"
                            ELSE "error"]
  /\ UNCHANGED <<campaign, funds, now>>
  /\ UNCHANGED createVars

NextCreate ==
  \/ \E b \in Balances : getBalance(b)
  \/ \E data \in CreateForms : CreateOnSubmit(data)
  \/ \E data \in CreateForms : ApiCreate(data)
  \/ \E percent \in Percents : CreateServe(percent)
  \/ CreateSettled

SpecCreate == Init /\ [][NextCreate]_vars

(***************************************************************************)
(* Authentication in the browser: page loads, LoginForm, AuthInitializer,  *)
(* the protected layouts' effects, Header's logout, and useWebSocket.      *)
(***************************************************************************)
appVars ==
  <<campaign, funds, now, log, uiReq, apiReq, resp, view, ui, tx, create,
    again, wd, wt, dp>>

MaxHandlers == 2
HandlerIds == 1..MaxHandlers

\* The dependencies [isAuthenticated, user] of the effects.
Deps(store) == <<store.isAuthenticated, store.user>>

\* The store's login and logout.
login(store, user) == [store EXCEPT !.user = user, !.isAuthenticated = TRUE]
logout(store) == [store EXCEPT !.user = NoUser, !.isAuthenticated = FALSE]

\* What the mounted layout shows.
Shows == LayoutRender(LayoutOf(auth.path), auth.token, auth.store)

\* A full page load of a path: the store and the socket start anew, the
\* token stays in localStorage.
PageLoad(path) ==
  /\ auth' = [auth EXCEPT !.store = NoStore, !.init = "mounted",
                          !.asked = NoUser,
                          !.form = "idle", !.path = path, !.nav = "load",
                          !.deps = NoDeps]
  /\ ws' = NoSocket
  /\ UNCHANGED appVars

\* A navigation inside the application (a Link, router.push, the browser's
\* back and forward): the store and the socket stay, the page's layout
\* mounts anew.
Navigate(path) ==
  /\ path # auth.path
  /\ auth' = [auth EXCEPT !.path = path, !.nav = "link", !.deps = NoDeps]
  /\ UNCHANGED ws
  /\ UNCHANGED appVars

\* The user's sessions end on the server.
SessionEnds ==
  /\ auth.session # NoUser
  /\ auth' = [auth EXCEPT !.session = NoUser, !.asked = NoUser]
  /\ UNCHANGED ws
  /\ UNCHANGED appVars

\* LoginForm.onSubmit up to the tokens: authApi.login answers and the tokens
\* are put into localStorage.
LoginTokens(user) ==
  /\ auth.path = "/login"
  /\ auth.form = "idle"
  /\ auth' = [auth EXCEPT !.token = TRUE, !.session = user, !.form = "tokens"]
  /\ UNCHANGED ws
  /\ UNCHANGED appVars

\* getCurrentUser answers: login(user, tokens), or the tokens are removed.
LoginUser ==
  /\ auth.form = "tokens"
  /\ IF auth.session # NoUser
       THEN auth' = [auth EXCEPT !.store = login(auth.store, auth.session),
                                 !.form = "user"]
       ELSE auth' = [auth EXCEPT !.token = FALSE, !.form = "idle"]
  /\ UNCHANGED ws
  /\ UNCHANGED appVars

\* window.location.href = dashboardUrl.
LoginRedirect ==
  /\ auth.form = "user"
  /\ auth' = [auth EXCEPT !.store = NoStore, !.init = "mounted",
                          !.asked = NoUser,
                          !.form = "idle",
                          !.path = DashboardUrl(auth.store.user),
                          !.nav = "load", !.deps = NoDeps]
  /\ ws' = NoSocket
  /\ UNCHANGED appVars

\* AuthInitializer's effect up to the await.
initializeAuth ==
  /\ auth.init = "mounted"
  /\ IF auth.token /\ ~auth.store.isAuthenticated /\ auth.store.user = NoUser
       THEN auth' = [auth EXCEPT !.init = "fetching",
                                 !.asked = auth.session,
                                 !.store.isLoading = TRUE]
       ELSE auth' = [auth EXCEPT !.init = "done"]
  /\ UNCHANGED ws
  /\ UNCHANGED appVars

\* getCurrentUser, sent with the token found at mount, answers
\* AuthInitializer: login with that user, or the catch branch.
initializeAuthSettled ==
  /\ auth.init = "fetching"
  /\ IF auth.asked # NoUser
       THEN auth' = [auth EXCEPT
                       !.store = [login(auth.store, auth.asked)
                                    EXCEPT !.isLoading = FALSE],
                       !.init = "done"]
       ELSE auth' = [auth EXCEPT
                       !.token = FALSE,
                       !.store = [logout(auth.store) EXCEPT !.isLoading = FALSE],
                       !.init = "done"]
  /\ UNCHANGED ws
  /\ UNCHANGED appVars

\* The mounted layout's useEffect, run on mount and when its dependencies
\* have changed: router.push or router.replace, or nothing.
LayoutUseEffect ==
  LET layout == LayoutOf(auth.path)
      to == LayoutEffect(layout, auth.token, auth.store)
  IN /\ layout # "none"
     /\ auth.deps # Deps(auth.store)
     /\ IF to = ""
          THEN auth' = [auth EXCEPT !.deps = Deps(auth.store)]
          ELSE auth' = [auth EXCEPT
                          !.path = to,
                          !.nav = IF layout = "seller" THEN "push" ELSE "replace",
                          !.deps = NoDeps]
     /\ UNCHANGED ws
     /\ UNCHANGED appVars

\* Header.handleLogout: logout() and router.push('/login').  Header is
\* rendered by a layout that shows its children.  Whether the store's
\* logout clears localStorage is left open.
handleLogout(keeps) ==
  /\ LayoutOf(auth.path) # "none"
  /\ Shows = "children"
  /\ auth' = [auth EXCEPT !.store = logout(auth.store),
                          !.token = auth.token /\ keeps,
                          !.path = "/login", !.nav = "push", !.deps = NoDeps]
  /\ UNCHANGED ws
  /\ UNCHANGED appVars

\* Mutant: the effect returns no cleanup.
useWebSocketNoCleanup ==
  /\ ws.deps # Deps(auth.store)
  /\ IF ~auth.store.isAuthenticated \/ auth.store.user = NoUser \/ ~auth.token
       THEN ws' = [ws EXCEPT !.live = FALSE, !.deps = Deps(auth.store)]
       ELSE \E h \in HandlerIds \ (ws.handlers \cup {ws.ref}) :
              ws' = [ws EXCEPT !.connected = TRUE,
                               !.handlers = ws.handlers \cup {h},
                               !.ref = h, !.live = TRUE,
                               !.deps = Deps(auth.store)]
  /\ UNCHANGED auth
  /\ UNCHANGED appVars

\* useWebSocket's effect, run on mount and when [isAuthenticated, user] has
\* changed: the cleanup of the last run first (offNotification of the ref's
\* handler, disconnectSocket), then the body (connectSocket, a new handler
\* into the ref, onNotification).
useWebSocket ==
  /\ ws.deps # Deps(auth.store)
  /\ LET off == IF ws.live /\ ws.ref # 0 THEN ws.handlers \ {ws.ref}
                ELSE ws.handlers
         up == IF ws.live THEN FALSE ELSE ws.connected
     IN IF ~auth.store.isAuthenticated \/ auth.store.user = NoUser
             \/ ~auth.token
          THEN ws' = [ws EXCEPT !.connected = up, !.handlers = off,
                                !.live = FALSE, !.deps = Deps(auth.store)]
          ELSE \E h \in HandlerIds \ (off \cup {ws.ref}) :
                 ws' = [ws EXCEPT !.connected = TRUE,
                                  !.handlers = off \cup {h},
                                  !.ref = h, !.live = TRUE,
                                  !.deps = Deps(auth.store)]
  /\ UNCHANGED auth
  /\ UNCHANGED appVars

\* The server pushes a notification: every registered handler makes a toast.
Notification ==
  /\ ws.connected
  /\ ws' = [ws EXCEPT !.toasts = Cardinality(ws.handlers)]
  /\ UNCHANGED auth
  /\ UNCHANGED appVars

NextAuth ==
  \/ \E path \in Paths : PageLoad(path)
  \/ \E path \in Paths : Navigate(path)
  \/ SessionEnds
  \/ \E user \in Users : LoginTokens(user)
  \/ LoginUser
  \/ LoginRedirect
  \/ initializeAuth
  \/ initializeAuthSettled
  \/ LayoutUseEffect
  \/ \E keeps \in BOOLEAN : handleLogout(keeps)
  \/ useWebSocket
  \/ Notification

SpecAuth == Init /\ [][NextAuth]_vars

\* React runs a pending effect.
SpecAuthFair == SpecAuth /\ WF_vars(useWebSocket)

(***************************************************************************)
(* WithdrawalForm.                                                         *)
(***************************************************************************)
wdVars ==
  <<campaign, funds, now, log, uiReq, apiReq, resp, view, ui, tx, create,
    auth, ws, again, wt, dp>>

WithdrawalBalances == {0, 50, 99, 100, 150}
WithdrawalInputs == {0, 50, 100, 101, 150, 10000}

\* The page renders the form with the available balance; the amount starts
\* at its default.
WithdrawalMount(balance) ==
  /\ ~wd.mounted
  /\ wd' = [NoWithdrawal EXCEPT !.mounted = TRUE, !.availableBalance = balance]
  /\ UNCHANGED wdVars

\* The page passes another available balance.
WithdrawalBalance(balance) ==
  /\ wd.mounted
  /\ balance # wd.availableBalance
  /\ wd' = [wd EXCEPT !.availableBalance = balance]
  /\ UNCHANGED wdVars

\* useEffect on [maxAmount, form]: an amount over the maximum is set to it.
WithdrawalEffect ==
  /\ wd.mounted
  /\ wd.deps # wd.availableBalance
  /\ wd' = [wd EXCEPT
              !.amount = IF @ > wd.availableBalance THEN wd.availableBalance
                         ELSE @,
              !.deps = wd.availableBalance]
  /\ UNCHANGED wdVars

\* An edit of the amount field.
WithdrawalAmountChange(value) ==
  /\ wd.mounted
  /\ wd' = [wd EXCEPT !.amount = amountOnChange(value, wd.availableBalance)]
  /\ UNCHANGED wdVars

\* An edit of the account number field.
WithdrawalAccountChange(n) ==
  /\ wd.mounted
  /\ n # wd.account_number
  /\ wd' = [wd EXCEPT !.account_number = n]
  /\ UNCHANGED wdVars

\* handleSubmit(onSubmit): the button is disabled while loading or with the
\* amount over the balance; onSubmit returns with a toast when the amount is
\* over the balance; otherwise createWithdrawal is sent.
WithdrawalOnSubmit ==
  LET data == [amount |-> wd.amount, payment_method |-> "yoomoney",
               account_number |-> wd.account_number]
  IN /\ wd.mounted
     /\ wd.phase = "idle"
     /\ ~(wd.amount > wd.availableBalance)
     /\ withdrawalSchema(data)
     /\ ~(data.amount > wd.availableBalance)
     /\ wd' = [wd EXCEPT !.phase = "sent", !.sent = data.amount]
     /\ UNCHANGED wdVars

\* The awaited createWithdrawal settles: router.push on success, toast.error
\* otherwise; finally setIsLoading(false).
WithdrawalSettled(ok) ==
  /\ wd.phase = "sent"
  /\ wd' = IF ok THEN NoWithdrawal
           ELSE [wd EXCEPT !.phase = "idle", !.sent = Undefined]
  /\ UNCHANGED wdVars

NextWithdrawal ==
  \/ \E balance \in WithdrawalBalances : WithdrawalMount(balance)
  \/ \E balance \in WithdrawalBalances : WithdrawalBalance(balance)
  \/ WithdrawalEffect
  \/ \E value \in WithdrawalInputs : WithdrawalAmountChange(value)
  \/ \E n \in {0, 1} : WithdrawalAccountChange(n)
  \/ WithdrawalOnSubmit
  \/ \E ok \in BOOLEAN : WithdrawalSettled(ok)

SpecWithdrawal == Init /\ [][NextWithdrawal]_vars

(***************************************************************************)
(* WithdrawalTable.                                                        *)
(***************************************************************************)
wtVars ==
  <<campaign, funds, now, log, uiReq, apiReq, resp, view, ui, tx, create,
    auth, ws, again, wd, dp>>

\* The page passes the withdrawals anew (onUpdate's refetch, or any other).
WithdrawalsUpdate(status) ==
  /\ status # wt.row
  /\ wt' = [wt EXCEPT !.row = status]
  /\ UNCHANGED wtVars

\* A row's Approve or Reject button.
handleAction(type) ==
  /\ IF type = "approve" THEN canApprove([status |-> wt.row])
     ELSE canReject([status |-> wt.row])
  /\ wt' = [wt EXCEPT !.selected = wt.row, !.actionType = type,
                      !.open = TRUE, !.notes = ""]
  /\ UNCHANGED wtVars

\* The dialog's Textarea.
setNotes(notes) ==
  /\ wt.open
  /\ notes # wt.notes
  /\ wt' = [wt EXCEPT !.notes = notes]
  /\ UNCHANGED wtVars

\* onOpenChange(false): Escape or a click outside the dialog.
setActionDialogOpen ==
  /\ wt.open
  /\ wt' = [wt EXCEPT !.open = FALSE]
  /\ UNCHANGED wtVars

\* The dialog's Cancel button.
cancelAction ==
  /\ wt.open
  /\ ~wt.isProcessing
  /\ wt' = [wt EXCEPT !.open = FALSE, !.selected = "none",
                      !.actionType = "none", !.notes = ""]
  /\ UNCHANGED wtVars

\* The dialog's confirm button.
confirmClick ==
  /\ wt.open
  /\ ~confirmDisabled(wt)
  /\ wt' = confirmAction(wt)
  /\ UNCHANGED wtVars

\* The awaited request settles: the dialog is reset and onUpdate called, or
\* the catch branch; finally setIsProcessing(false).
actionSettled(ok) ==
  /\ wt.sent # NoAction
  /\ wt' = IF ok
             THEN [wt EXCEPT !.open = FALSE, !.selected = "none",
                             !.actionType = "none", !.notes = "",
                             !.toast = "success", !.isProcessing = FALSE,
                             !.sent = NoAction]
             ELSE [wt EXCEPT !.toast = "error", !.isProcessing = FALSE,
                             !.sent = NoAction]
  /\ UNCHANGED wtVars

NextTable ==
  \/ \E status \in WithdrawalStatuses : WithdrawalsUpdate(status)
  \/ \E type \in {"approve", "reject"} : handleAction(type)
  \/ \E notes \in NotesTexts : setNotes(notes)
  \/ setActionDialogOpen
  \/ cancelAction
  \/ confirmClick
  \/ \E ok \in BOOLEAN : actionSettled(ok)

SpecTable == Init /\ [][NextTable]_vars

(***************************************************************************)
(* DisputeDetailsPage: the Resolve Dispute dialog.                         *)
(***************************************************************************)
dpVars ==
  <<campaign, funds, now, log, uiReq, apiReq, resp, view, ui, tx, create,
    auth, ws, again, wd, wt>>

\* What the admin can type as refund amount.
RefundTexts(d) ==
  {<<>>, <<0 - 5>>, <<0>>, <<1>>}
    \cup (IF d.budget = Undefined THEN {}
          ELSE {<<d.budget>>, <<d.budget + 1>>})

\* useCampaignById answers.
DisputeCampaign(budget) ==
  /\ ~dp.left
  /\ dp.budget = Undefined
  /\ dp' = [dp EXCEPT !.budget = budget]
  /\ UNCHANGED dpVars

\* The page's Resolve Dispute button.
setResolveDialogOpen(open) ==
  /\ ~dp.left
  /\ dp.open # open
  /\ open \/ ~dp.isProcessing
  /\ dp' = [dp EXCEPT !.open = open]
  /\ UNCHANGED dpVars

setDecision(decision) ==
  /\ dp.open
  /\ decision # dp.decision
  /\ dp' = [dp EXCEPT !.decision = decision]
  /\ UNCHANGED dpVars

\* The dialog's Textarea.
setResolveNotes(notes) ==
  /\ dp.open
  /\ notes # dp.notes
  /\ dp' = [dp EXCEPT !.notes = notes]
  /\ UNCHANGED dpVars

\* The Refund Amount field, rendered for a partial refund of a loaded
\* campaign.
setRefundAmount(text) ==
  /\ dp.open
  /\ dp.decision = "partial_refund"
  /\ dp.budget # Undefined
  /\ text # dp.refundAmount
  /\ dp' = [dp EXCEPT !.refundAmount = text]
  /\ UNCHANGED dpVars

\* The dialog's Resolve button: handleResolve up to its await.
resolveClick ==
  /\ dp.open
  /\ ~resolveDisabled(dp)
  /\ dp' = [dp EXCEPT !.isProcessing = TRUE,
                      !.sent = [payload |-> handleResolve(dp.decision,
                                              parseFloat(dp.refundAmount)),
                                notes |-> dp.notes]]
  /\ UNCHANGED dpVars

\* The awaited request settles: the page is left for the list, or the catch
\* branch; finally setIsProcessing(false).
resolveSettled(ok) ==
  /\ dp.sent # NoResolve
  /\ dp' = IF ok
             THEN [dp EXCEPT !.open = FALSE, !.left = TRUE,
                             !.isProcessing = FALSE, !.sent = NoResolve]
             ELSE [dp EXCEPT !.isProcessing = FALSE, !.sent = NoResolve]
  /\ UNCHANGED dpVars

NextDispute ==
  \/ \E budget \in Budgets : DisputeCampaign(budget)
  \/ \E open \in BOOLEAN : setResolveDialogOpen(open)
  \/ \E decision \in Decisions : setDecision(decision)
  \/ \E notes \in NotesTexts : setResolveNotes(notes)
  \/ \E text \in RefundTexts(dp) : setRefundAmount(text)
  \/ resolveClick
  \/ \E ok \in BOOLEAN : resolveSettled(ok)

SpecDispute == Init /\ [][NextDispute]_vars

(***************************************************************************)
(* Properties.                                                             *)
(***************************************************************************)
Edges ==
  {<<"pending", "accepted">>, <<"pending", "rejected">>,
   <<"pending", "cancelled">>, <<"accepted", "in_progress">>,
   <<"in_progress", "completed">>, <<"in_progress", "disputed">>,
   <<"disputed", "completed">>, <<"disputed", "cancelled">>}

\* How far along the graph a status is.
Rank(s) ==
  CASE s = "pending" -> 0
    [] s = "accepted" -> 1
    [] s = "in_progress" -> 2
    [] s = "disputed" -> 3
    [] OTHER -> 4

\* The campaign as a page that has just fetched it renders it.
Shown == Fetched(campaign)

\* C1: every change of a campaign's status is one of the eight edges of the
\* graph, no edge is taken twice and no change goes backward: the list of
\* status changes starts at pending, is a path of the graph that ends at the
\* current status, rises strictly in rank and repeats no edge; and every
\* action CampaignActions offers on a campaign is an operation whose edge
\* leaves the campaign's status.
C1_StatusFollowsGraph ==
  /\ campaign.status \in Statuses \cup {"none"}
  /\ \A i \in 1..Len(log) :
       /\ log[i] \in Edges
       /\ Rank(log[i][1]) < Rank(log[i][2])
       /\ i = 1 => log[i][1] = "pending"
       /\ i > 1 => log[i][1] = log[i - 1][2]
       /\ i = Len(log) => log[i][2] = campaign.status
  /\ \A i, j \in 1..Len(log) : i # j => log[i] # log[j]
  /\ Len(log) = 0 => campaign.status \in {"none", "pending"}
  /\ \A u \in UserTypes : \A a \in CampaignActions(Shown, u) :
       FromStatus(OpOf(a)) = campaign.status

\* C1 witness: a campaign that went pending, accepted, in_progress, disputed
\* and was then resolved.
C1_Witness ==
  /\ Len(log) = 4
  /\ log[3] = <<"in_progress", "disputed">>
  /\ campaign.status \in {"completed", "cancelled"}

\* C2, in every state: whatever the campaign's state, a request by a role
\* other than the operation's is answered Unauthorized; only requests of the
\* operation's own role wait for an update; and CampaignActions offers a user
\* type only the operations of its role.
C2_Inv ==
  /\ campaign.status # "none" =>
       \A role \in UserTypes, op \in Ops : \A p \in ApiPayloads(op) :
         role # RoleOf(op) => Precondition(campaign, role, op, p) = "Unauthorized"
  /\ resp.phase = "done" /\ resp.role # RoleOf(resp.op) => resp.result = "Unauthorized"
  /\ \A r \in BagToSet(apiReq) : r.role = RoleOf(r.op)
  /\ \A u \in UserTypes : \A a \in CampaignActions(Shown, u) : RoleOf(OpOf(a)) = u

\* C2, in every step: the step that answers Unauthorized changes neither the
\* campaign nor its funds.
C2_Step ==
  resp'.phase = "done" /\ resp'.result = "Unauthorized" /\ resp.phase = "idle"
    => campaign' = campaign /\ funds' = funds /\ log' = log

\* C2: a request by a role the transition table does not name leaves the
\* campaign unchanged and returns Unauthorized, and CampaignActions offers
\* each user type only the actions of its own role.
C2_UnauthorizedRole == []C2_Inv /\ [][C2_Step]_vars

\* C2 witness: the channel owner asked to confirm an in_progress campaign
\* and was answered Unauthorized.
C2_Witness ==
  /\ campaign.status = "in_progress"
  /\ resp.phase = "done"
  /\ resp.op = "confirm"
  /\ resp.role = "channel_owner"
  /\ resp.result = "Unauthorized"

\* The controls whose operations all leave pending, so that any two of them
\* conflict.
FromPending == {a \in Actions : FromStatus(OpOf(a)) = "pending"}

\* C3, in every state: two conflicting requests are never both answered ok.
C3_Inv ==
  \A a, b \in FromPending :
    a # b => ~(uiReq[a].result = "ok" /\ uiReq[b].result = "ok")

\* C3, the update of a validated request: the first of the conflicting
\* requests to reach its update wins, sets the status of its own edge and
\* leaves the others waiting; every later one is answered Conflict and
\* changes nothing.
C3_Update ==
  \A a \in FromPending :
    uiReq[a].phase = "validated" /\ uiReq'[a].phase = "done" =>
      IF campaign.status = "pending"
        THEN /\ uiReq'[a].result = "ok"
             /\ campaign'.status \in ToStatuses(OpOf(a), uiReq[a].p)
             /\ log' = Append(log, <<"pending", campaign'.status>>)
             /\ \A b \in FromPending \ {a} : uiReq'[b] = uiReq[b]
        ELSE /\ uiReq'[a].result = "Conflict"
             /\ campaign' = campaign
             /\ funds' = funds
             /\ log' = log

\* C3, the dialogs: the winner's onSubmit reports success and the loser's
\* reports the error.
C3_Settled ==
  \A a \in FromPending :
    uiReq[a].phase = "done" /\ uiReq'[a].phase = "idle" =>
      ui'[ClientOf(a)].toast =
        IF uiReq[a].result = "ok" THEN "success" ELSE "error"

\* C3: of two conflicting requests on one pending campaign that are in flight
\* together (accept and reject, accept and cancel), exactly one succeeds in
\* every interleaving, the other returns Conflict, the final status is the
\* winner's, and the loser never overwrites it.
C3_OneWinner == []C3_Inv /\ [][C3_Update /\ C3_Settled]_vars

\* C3 witness: accept and cancel were in flight together; accept won and
\* cancel was answered Conflict.
C3_Witness ==
  /\ uiReq["accept"].phase = "done"
  /\ uiReq["accept"].result = "ok"
  /\ uiReq["cancel"].phase = "done"
  /\ uiReq["cancel"].result = "Conflict"
  /\ campaign.status = "accepted"

C5_Inv ==
  Len(log) = 1 /\ log[1][2] \in {"rejected", "cancelled"} =>
    /\ campaign.status = log[1][2]
    /\ funds = [NoFunds EXCEPT !.refunded = campaign.budget * PercentBase,
                               !.nRefund = 1, !.moves = 1]

\* C5, in every step: the step that takes a pending campaign to rejected is
\* the channel owner's reject, the one that takes it to cancelled is the
\* seller's cancel, and it refunds the whole budget that was held.
C5_Step ==
  campaign.status = "pending" /\ campaign'.status \in {"rejected", "cancelled"} =>
    /\ resp'.result = "ok"
    /\ resp'.op = (IF campaign'.status = "rejected" THEN "reject" ELSE "cancel")
    /\ resp'.role = (IF campaign'.status = "rejected" THEN "channel_owner" ELSE "seller")
    /\ funds.held = campaign.budget * PercentBase
    /\ funds'.held = 0
    /\ funds'.refunded = campaign.budget * PercentBase
    /\ funds'.released = 0
    /\ funds'.commission = 0

\* C5: rejecting (channel owner) or cancelling (seller) a pending campaign
\* refunds the full budget to the seller exactly once, releases nothing, and
\* ends in rejected (respectively cancelled).
C5_RejectCancelRefund == []C5_Inv /\ [][C5_Step]_vars

\* C5 witness: a campaign of budget 10000 was cancelled and 10000 refunded.
C5_Witness ==
  /\ campaign.status = "cancelled"
  /\ campaign.budget = 10000
  /\ log = <<(<<"pending", "cancelled">>)>>
  /\ funds.refunded = 10000 * PercentBase

\* A campaign of budget b and commission percentage pc, as the dialog reads it.
Priced(b, pc) ==
  [Fetched(NoCampaign) EXCEPT !.budget = b, !.platform_commission_percent = pc]

HappyPath ==
  <<(<<"pending", "accepted">>), <<"accepted", "in_progress">>,
    <<"in_progress", "completed">>>>

\* A submit payload the transition table accepts.
ProofGiven(p) ==
  p.placement_proof_url # "" /\ p.placement_proof_type \in ProofTypes

\* C7, in every state: at each status of the scenario the next operation is
\* accepted from its role and offered to it by CampaignActions, and a
\* campaign that went through the scenario is completed with its three
\* timestamps set and its budget released exactly once.
C7_Inv ==
  /\ campaign.status = "pending" =>
       /\ \A p \in ApiPayloads("accept") :
            Precondition(campaign, "channel_owner", "accept", p) = "ok"
       /\ "accept" \in CampaignActions(Shown, "channel_owner")
  /\ campaign.status = "accepted" =>
       /\ \A p \in ApiPayloads("submit") :
            ProofGiven(p) =>
              Precondition(campaign, "channel_owner", "submit", p) = "ok"
       /\ "submit" \in CampaignActions(Shown, "channel_owner")
  /\ campaign.status = "in_progress" =>
       /\ Precondition(campaign, "seller", "confirm", NoPayload) = "ok"
       /\ "confirm" \in CampaignActions(Shown, "seller")
  /\ log = HappyPath =>
       /\ campaign.status = "completed"
       /\ campaign.owner_submitted_at # 0
       /\ campaign.seller_confirmed_at # 0
       /\ campaign.actual_completion_date # 0
       /\ funds.nRelease = 1
       /\ funds.nRefund = 0
       /\ funds.moves = 1
       /\ funds.held = 0

\* C7, in every step: a request that passed its checks takes effect when the
\* status is still the one it was checked against, and only then.
C7_Step ==
  resp.phase = "idle" /\ resp'.phase = "done" /\ resp'.result \in {"ok", "Conflict"} =>
    /\ resp'.result = "ok" <=> campaign.status = FromStatus(resp'.op)
    /\ resp'.result = "ok" =>
         /\ campaign'.status \in ToStatuses(resp'.op, resp'.p)
         /\ campaign'.status # campaign.status

\* C7: create, accept, submitPlacement with a valid proof and confirm with
\* confirmed = true can always be executed step by step, and end in completed
\* with owner_submitted_at, seller_confirmed_at and actual_completion_date set
\* and the budget released exactly once.
C7_HappyPath == []C7_Inv /\ [][C7_Step]_vars

\* C7 witness: the scenario was executed to its end.
C7_Witness ==
  /\ log = HappyPath
  /\ campaign.seller_confirmed_at # 0
  /\ resp.phase = "done"
  /\ resp.op = "confirm"
  /\ resp.result = "ok"

\* C8, in every state: on a campaign in a terminal status no request passes
\* its checks and CampaignActions offers no action to any user type.
C8_Inv ==
  campaign.status \in Terminal =>
    /\ \A u \in UserTypes : CampaignActions(Shown, u) = {}
    /\ \A role \in UserTypes, op \in Ops : \A p \in ApiPayloads(op) :
         Precondition(campaign, role, op, p) # "ok"

\* C8, in every step: once the status is terminal, the status, the funds, the
\* proof, the notes and the timestamps stay as they are.
C8_Step ==
  campaign.status \in Terminal =>
    campaign' = campaign /\ funds' = funds /\ log' = log

\* C8: once a campaign is completed, rejected or cancelled, no operation
\* changes its status, funds, proof, notes or timestamps, and CampaignActions
\* offers no action on it to any user type.
C8_TerminalFrozen == []C8_Inv /\ [][C8_Step]_vars

\* C8 witness: a resolution was asked of a completed campaign and refused.
C8_Witness ==
  /\ campaign.status = "completed"
  /\ resp.phase = "done"
  /\ resp.op = "resolve"
  /\ resp.role = "admin"
  /\ resp.result = "InvalidTransition"

Errors == {"Unauthorized", "InvalidTransition", "ValidationError", "Conflict"}

\* Requests of which a precondition fails whatever the campaign's status: a
\* wrong role, a reason that is too short, a reason that is missing, a proof
\* that is missing.
BadRequests ==
  {<<"seller", "accept", NoPayload>>,
   <<"channel_owner", "reject", [NoPayload EXCEPT !.reason = MinReasonLen - 1]>>,
   <<"seller", "confirm", [NoPayload EXCEPT !.confirmed = FALSE]>>,
   <<"channel_owner", "submit",
     [NoPayload EXCEPT !.placement_proof_type = "screenshot"]>>}

\* C9, in every state: a request of which a precondition fails (wrong role,
\* wrong current status, reason missing or too short, proof missing) is
\* answered with an error at once and never reaches an update.
C9_Inv ==
  campaign.status # "none" =>
    /\ \A r \in BadRequests : Received(r[1], r[2], r[3]).result \in Errors
    /\ \A op \in Ops :
         campaign.status # FromStatus(op) =>
           \A p \in ApiPayloads(op) :
             Received(RoleOf(op), op, p).result \in Errors

\* C9, the server's check: a dialog's request waits for its update only when
\* its role, the campaign's status and its payload are those of the
\* transition table.
C9_Admitted ==
  \A a \in Actions :
    uiReq[a].phase = "idle" /\ uiReq'[a].phase = "validated" =>
      /\ uiReq'[a].role = RoleOf(uiReq'[a].op)
      /\ campaign.status = FromStatus(uiReq'[a].op)
      /\ PayloadValid(campaign, uiReq'[a].op, uiReq'[a].p)

\* C9, the server's answer: the step that answers a dialog's request with an
\* error leaves the campaign, its timestamps and its funds as they were.
C9_Refused ==
  \A a \in Actions :
    uiReq[a].phase # "done" /\ uiReq'[a].phase = "done" /\ uiReq'[a].result # "ok" =>
      /\ uiReq'[a].result \in Errors
      /\ campaign' = campaign
      /\ funds' = funds
      /\ log' = log

\* C9, the dialog: onSubmit, given an error, shows the error toast, leaves the
\* dialog as it is, asks for no refetch and sends nothing again.
C9_Settled ==
  \A a \in Actions :
    uiReq[a].phase = "done" /\ uiReq[a].result # "ok" /\ uiReq'[a] # uiReq[a] =>
      /\ uiReq' = [uiReq EXCEPT ![a] = Idle]
      /\ ui' = [ui EXCEPT ![ClientOf(a)].toast = "error"]
      /\ view' = view
      /\ campaign' = campaign
      /\ funds' = funds

\* C9: a lifecycle request whose precondition fails returns an error and
\* leaves status, funds and timestamps exactly as they were; it is not
\* retried automatically, and the dialog reports the error without
\* signalling success.
C9_FailedRequest == []C9_Inv /\ [][C9_Admitted /\ C9_Refused /\ C9_Settled]_vars

\* C9 witness: the reject dialog, still open on a stale page, sent its request
\* for a campaign the seller had cancelled, and was answered
\* InvalidTransition.
C9_Witness ==
  /\ campaign.status = "cancelled"
  /\ uiReq["reject"].phase = "done"
  /\ uiReq["reject"].result = "InvalidTransition"
  /\ ui["channel_owner"].open = "reject"

\* The form data of the submit dialog, with a type the Select does not have.
SubmitData ==
  {[placement_proof_url |-> u, placement_proof_type |-> t, owner_notes |-> n] :
     u \in Urls, t \in ProofTypes \cup {"video"}, n \in NotesLens}

\* C10, in every state: on an accepted campaign a submit is refused with
\* ValidationError when the URL is empty or the type is not one of
\* screenshot, post_link, other, and is accepted otherwise; the dialog's
\* schema lets through no data the server refuses; once owner_submitted_at is
\* set the proof is there and every further submit is refused with
\* InvalidTransition.
C10_Inv ==
  /\ campaign.status = "accepted" =>
       /\ campaign.owner_submitted_at = 0
       /\ \A p \in ApiPayloads("submit") :
            Precondition(campaign, "channel_owner", "submit", p) =
              IF p.placement_proof_url = ""
                   \/ p.placement_proof_type \notin {"screenshot", "post_link", "other"}
                THEN "ValidationError"
                ELSE "ok"
  /\ \A data \in SubmitData :
       submitSchema(data) =>
         /\ data.placement_proof_url # ""
         /\ data.placement_proof_type \in {"screenshot", "post_link", "other"}
  /\ campaign.owner_submitted_at # 0 =>
       /\ campaign.status \notin {"pending", "accepted", "rejected"}
       /\ campaign.placement_proof_url # ""
       /\ campaign.placement_proof_type \in ProofTypes
       /\ \A p \in ApiPayloads("submit") :
            Precondition(campaign, "channel_owner", "submit", p) = "InvalidTransition"
  /\ campaign.status \in {"in_progress", "disputed"} => campaign.owner_submitted_at # 0

\* C10, in every step: an accepted campaign leaves accepted only by a submit
\* that was answered ok, to in_progress, with owner_submitted_at set and the
\* proof stored; a refused submit changes nothing; and once set,
\* owner_submitted_at and the proof never change.
C10_Step ==
  /\ campaign.status = "accepted" /\ campaign'.status # "accepted" =>
       /\ campaign'.status = "in_progress"
       /\ resp'.op = "submit"
       /\ resp'.result = "ok"
       /\ ProofGiven(resp'.p)
       /\ campaign'.owner_submitted_at = now
       /\ campaign'.owner_submitted_at # 0
       /\ campaign'.placement_proof_url = resp'.p.placement_proof_url
       /\ campaign'.placement_proof_type = resp'.p.placement_proof_type
  /\ resp.phase = "idle" /\ resp'.phase = "done" /\ resp'.op = "submit"
       /\ resp'.result # "ok" => campaign' = campaign /\ funds' = funds
  /\ campaign.owner_submitted_at # 0 =>
       /\ campaign'.owner_submitted_at = campaign.owner_submitted_at
       /\ campaign'.placement_proof_url = campaign.placement_proof_url
       /\ campaign'.placement_proof_type = campaign.placement_proof_type

\* C10: submitPlacement on an accepted campaign fails with ValidationError
\* when the proof URL is empty or the proof type is not one of screenshot,
\* post_link, other; otherwise it moves the campaign to in_progress and sets
\* owner_submitted_at; a second submitPlacement fails with InvalidTransition
\* and leaves owner_submitted_at and the proof unchanged.
C10_SubmitPlacement == []C10_Inv /\ [][C10_Step]_vars

\* C10 witness: a second submit on the campaign that a first one had moved to
\* in_progress was answered InvalidTransition.
C10_Witness ==
  /\ campaign.status = "in_progress"
  /\ campaign.owner_submitted_at # 0
  /\ campaign.placement_proof_url # ""
  /\ resp.phase = "done"
  /\ resp.op = "submit"
  /\ resp.role = "channel_owner"
  /\ resp.result = "InvalidTransition"

\* C11: a campaign on which a confirm or dispute decision has been recorded
\* (completed by confirmation, disputed now or before, seller_confirmed_at
\* set) has a non-empty placement_proof_url, and CampaignActions offers
\* Review & Confirm only on a campaign whose proof is present, which the
\* dialog then shows.
C11_ProofBeforeDecision ==
  /\ (\/ campaign.status = "disputed"
      \/ campaign.seller_confirmed_at # 0
      \/ \E i \in 1..Len(log) : log[i][1] = "in_progress")
       => campaign.placement_proof_url # ""
  /\ \A u \in UserTypes :
       "confirm" \in CampaignActions(Shown, u) =>
         /\ Shown.placement_proof_url # ""
         /\ ProofShown(Shown)

\* C11 witness: a dispute was recorded on a campaign that has its proof.
C11_Witness ==
  /\ campaign.status = "disputed"
  /\ campaign.placement_proof_url # ""
  /\ resp.phase = "done"
  /\ resp.op = "confirm"
  /\ resp.result = "ok"

\* C12, in every state: on a pending campaign the reject of the channel owner
\* with a reason of at least 10 characters is accepted, one with a shorter
\* reason is a ValidationError and one of the seller is Unauthorized; the
\* RejectCampaignDialog's schema lets no shorter reason through; and a
\* rejected campaign holds its reason.
C12_Inv ==
  /\ campaign.status = "pending" =>
       /\ Precondition(campaign, "channel_owner", "reject",
                       [NoPayload EXCEPT !.reason = MinReasonLen]) = "ok"
       /\ Precondition(campaign, "channel_owner", "reject",
                       [NoPayload EXCEPT !.reason = MinReasonLen - 1]) = "ValidationError"
       /\ Precondition(campaign, "seller", "reject",
                       [NoPayload EXCEPT !.reason = MinReasonLen]) = "Unauthorized"
       /\ funds.held = campaign.budget * PercentBase
  /\ \A data \in RejectForms : rejectSchema(data) => data.reason >= MinReasonLen
  /\ campaign.status = "rejected" => campaign.owner_notes >= MinReasonLen

\* C12, in every step: the dialog sends a request only with a reason of at
\* least 10 characters, and the campaign becomes rejected only by the channel
\* owner's reject with such a reason.
C12_Step ==
  /\ uiReq["reject"].phase = "idle" /\ uiReq'["reject"].phase # "idle" =>
       /\ uiReq'["reject"].role = "channel_owner"
       /\ ui["channel_owner"].open = "reject"
       /\ \E data \in RejectForms :
            /\ data.reason >= MinReasonLen
            /\ uiReq'["reject"] =
                 Received("channel_owner", "reject",
                          [NoPayload EXCEPT !.reason = data.reason])
  /\ campaign'.status = "rejected" /\ campaign.status # "rejected" =>
       /\ campaign.status = "pending"
       /\ uiReq["reject"].phase = "validated"
       /\ uiReq["reject"].p.reason >= MinReasonLen
       /\ uiReq'["reject"].result = "ok"

\* C12: rejectCampaign moves a pending campaign to rejected only when made by
\* the channel owner with a reason of at least 10 characters; with a shorter
\* reason RejectCampaignDialog sends no request and the campaign stays
\* pending with its funds held.
C12_RejectReason == []C12_Inv /\ [][C12_Step]_vars

\* C12 witness: the dialog's request with a reason of 10 characters rejected
\* the campaign.
C12_Witness ==
  /\ campaign.status = "rejected"
  /\ uiReq["reject"].phase = "done"
  /\ uiReq["reject"].result = "ok"
  /\ uiReq["reject"].p.reason = MinReasonLen

\* The form data of the confirm dialog, with the reason left undefined.
ConfirmData ==
  ConfirmForms \cup {[confirmed |-> b, reason |-> Undefined] : b \in BOOLEAN}

\* A dispute reason of at least 10 characters.
ReasonGiven(p) == p.reason # Undefined /\ p.reason >= MinReasonLen

\* C13, in every state: on an in_progress campaign a dispute is accepted with
\* a reason of at least 10 characters and is a ValidationError without;
\* confirmSchema lets no dispute through without such a reason; a disputed
\* campaign has owner_submitted_at set, holds its reason and has its whole
\* budget still held.
C13_Inv ==
  /\ campaign.status = "in_progress" =>
       /\ campaign.owner_submitted_at # 0
       /\ \A p \in ApiPayloads("confirm") :
            ~p.confirmed =>
              Precondition(campaign, "seller", "confirm", p) =
                IF ReasonGiven(p) THEN "ok" ELSE "ValidationError"
  /\ \A data \in ConfirmData :
       ~data.confirmed /\ confirmSchema(data) => ReasonGiven(data)
  /\ campaign.status = "disputed" =>
       /\ campaign.owner_submitted_at # 0
       /\ campaign.seller_notes >= MinReasonLen
       /\ funds = [NoFunds EXCEPT !.held = campaign.budget * PercentBase]

\* C13, in every step: a campaign becomes disputed only from in_progress, by
\* the seller's dispute with a reason, and the step moves no funds; a refused
\* dispute changes nothing.
C13_Step ==
  /\ campaign'.status = "disputed" /\ campaign.status # "disputed" =>
       /\ campaign.status = "in_progress"
       /\ campaign.owner_submitted_at # 0
       /\ resp'.op = "confirm"
       /\ resp'.role = "seller"
       /\ resp'.result = "ok"
       /\ ~resp'.p.confirmed
       /\ ReasonGiven(resp'.p)
       /\ funds' = funds
  /\ resp.phase = "idle" /\ resp'.phase = "done" /\ resp'.op = "confirm"
       /\ resp'.result # "ok" =>
         campaign' = campaign /\ funds' = funds

\* C13: a dispute moves a campaign from in_progress to disputed only when
\* owner_submitted_at is set and a reason of at least 10 characters is
\* given; it releases and refunds nothing; with a missing or shorter reason
\* no dispute is opened and the campaign stays in_progress.
C13_DisputeReason == []C13_Inv /\ [][C13_Step]_vars

\* C13 witness: a dispute with a reason of 9 characters was refused and the
\* campaign is still in_progress.
C13_Witness ==
  /\ campaign.status = "in_progress"
  /\ resp.phase = "done"
  /\ resp.op = "confirm"
  /\ ~resp.p.confirmed
  /\ resp.p.reason = MinReasonLen - 1
  /\ resp.result = "ValidationError"

Timestamps(c) ==
  <<c.owner_submitted_at, c.seller_confirmed_at, c.actual_completion_date>>

\* C14, in every state: a campaign that is pending or accepted has none of
\* the three timestamps; a set timestamp is a time of the server's clock
\* that has passed.
C14_Inv ==
  /\ campaign.status \in {"none", "pending", "accepted"} =>
       Timestamps(campaign) = <<0, 0, 0>>
  /\ \A i \in 1..3 : Timestamps(campaign)[i] >= 0 /\ Timestamps(campaign)[i] < now

\* C14, in every step: creation leaves the three timestamps unset; a
\* timestamp that is set keeps its value; and so does the date that
\* CampaignTimeline shows for the milestone.
C14_Step ==
  /\ campaign.status = "none" => Timestamps(campaign') = <<0, 0, 0>>
  /\ \A i \in 1..3 :
       Timestamps(campaign)[i] # 0 =>
         Timestamps(campaign')[i] = Timestamps(campaign)[i]
  /\ \A id \in TimelineIds :
       StepDate(campaign, id) # 0 =>
         StepDate(campaign', id) = StepDate(campaign, id)
  /\ \A id \in {"submitted", "confirmed"} :
       StepCompleted(campaign, id) <=> StepDate(campaign, id) # 0

\* C14: owner_submitted_at, seller_confirmed_at and actual_completion_date
\* are unset at creation and change at most once, from unset to a value,
\* never to another value or back to unset.
C14_TimestampsOnce == []C14_Inv /\ [][C14_Step]_vars

\* C14 witness: all three timestamps are set and a later request was made.
C14_Witness ==
  /\ campaign.owner_submitted_at # 0
  /\ campaign.seller_confirmed_at # 0
  /\ campaign.actual_completion_date # 0
  /\ resp.phase = "done"
  /\ resp.op = "submit"
  /\ resp.role = "channel_owner"

\* The amounts the admin may type for a campaign, within its budget.
AmountsWithin(c) == {0, 1, c.budget}

\* A resolve payload of the transition table.
DecisionGiven(c, p) ==
  /\ p.decision \in {"refund", "release_payment", "partial_refund"}
  /\ p.decision = "partial_refund" =>
       p.refund_amount \in 0..c.budget

\* C15, in every state: on a disputed campaign a resolve is accepted from an
\* admin with one of the three decisions (and, for a partial refund, an
\* amount within the budget), such as DisputeDetailsPage sends; from another
\* role it is Unauthorized and with other data a ValidationError; on a
\* campaign in any other status it is an InvalidTransition; a resolved
\* campaign is completed or cancelled and what was refunded and released is
\* together the budget.
C15_Inv ==
  /\ campaign.status = "disputed" =>
       /\ \A role \in UserTypes : \A p \in ApiPayloads("resolve") :
            Precondition(campaign, role, "resolve", p) =
              IF role # "admin" THEN "Unauthorized"
              ELSE IF DecisionGiven(campaign, p) THEN "ok"
              ELSE "ValidationError"
       /\ \A d \in Decisions : \A m \in AmountsWithin(campaign) :
            Precondition(campaign, "admin", "resolve", handleResolve(d, m)) = "ok"
  /\ campaign.status \notin {"none", "disputed"} =>
       \A p \in ApiPayloads("resolve") :
         Precondition(campaign, "admin", "resolve", p) = "InvalidTransition"
  /\ (Len(log) > 0 /\ log[Len(log)][1] = "disputed") =>
       /\ campaign.status \in {"completed", "cancelled"}
       /\ funds.refunded + funds.released = campaign.budget * PercentBase
       /\ funds.held = 0
       /\ funds.commission = 0
       /\ funds.moves = 1

\* C15, in every step: a campaign leaves disputed only by an admin's resolve
\* with one of the three decisions, to completed or cancelled, and the step
\* refunds all, releases all, or refunds the given amount and releases the
\* rest.
C15_Step ==
  campaign.status = "disputed" /\ campaign'.status # "disputed" =>
    /\ resp'.op = "resolve"
    /\ resp'.role = "admin"
    /\ resp'.result = "ok"
    /\ DecisionGiven(campaign, resp'.p)
    /\ campaign'.status \in {"completed", "cancelled"}
    /\ resp'.p.decision = "refund" =>
         /\ campaign'.status = "cancelled"
         /\ funds'.refunded = campaign.budget * PercentBase
         /\ funds'.released = 0
    /\ resp'.p.decision = "release_payment" =>
         /\ campaign'.status = "completed"
         /\ funds'.refunded = 0
         /\ funds'.released = campaign.budget * PercentBase
    /\ resp'.p.decision = "partial_refund" =>
         /\ funds'.refunded = resp'.p.refund_amount * PercentBase
         /\ funds'.released =
              (campaign.budget - resp'.p.refund_amount) * PercentBase

\* C15: resolveDispute takes effect only on a disputed campaign and only
\* when called by an admin with a decision in refund, release_payment,
\* partial_refund; it moves the campaign to completed or cancelled, and the
\* amounts refunded and released together equal the budget.
C15_ResolveDispute == []C15_Inv /\ [][C15_Step]_vars

\* C15 witness: a partial refund of 1 out of 10000 was applied.
C15_Witness ==
  /\ resp.phase = "done"
  /\ resp.op = "resolve"
  /\ resp.result = "ok"
  /\ resp.p.decision = "partial_refund"
  /\ campaign.budget = 10000
  /\ funds.refunded = 1 * PercentBase
  /\ funds.released = 9999 * PercentBase

\* C16, in every state, whatever write failed before: a campaign that is
\* rejected, cancelled or completed no longer has its budget held, and a
\* campaign in any other status has had nothing refunded or released.
C16_Inv ==
  /\ campaign.status \in Terminal =>
       /\ funds.held = 0
       /\ funds.refunded + funds.released + funds.commission
            = campaign.budget * PercentBase
  /\ campaign.status \in Statuses \ Terminal =>
       /\ funds.held = campaign.budget * PercentBase
       /\ funds.refunded = 0
       /\ funds.released = 0
       /\ funds.commission = 0

\* C16, in every step: the funds move in exactly the steps in which the
\* status becomes terminal, and a step that reports a failed fund movement
\* or a failed status write has changed neither.
C16_Step ==
  /\ campaign.status # "none" =>
       (funds' # funds <=>
          (campaign.status \notin Terminal /\ campaign'.status \in Terminal))
  /\ resp.phase = "idle"
       /\ resp'.result \in {"FundMovementFailed", "StatusWriteFailed"} =>
         campaign' = campaign /\ funds' = funds /\ log' = log

\* C16: a status change and its fund movement are applied together or not
\* at all: in no reachable state, including those after a failed fund
\* movement or a failed status write, is the status rejected, cancelled or
\* completed with the budget still held, nor the budget refunded or released
\* with the status still the one before the transition.
C16_StatusAndFundsTogether == []C16_Inv /\ [][C16_Step]_vars

\* C16 witness: the status write of a cancellation failed after its refund
\* had been staged; the campaign is pending and its budget held.
C16_Witness ==
  /\ resp.phase = "done"
  /\ resp.op = "cancel"
  /\ resp.result = "StatusWriteFailed"
  /\ campaign.status = "pending"
  /\ funds.held = campaign.budget * PercentBase

\* The controls of client c to which a click would send a request now.
CanIssue(c) ==
  {b \in Actions :
     /\ ClientOf(b) = c
     /\ b \in CampaignActions(view[c], c)
     /\ uiReq[b].phase = "idle"
     /\ (b = "cancel" \/ ui[c].open = b)}

\* C17, the step in which a client is told of a Conflict: after it, the
\* client's copy of the campaign is the campaign as it is now, so that the
\* actions it offers are those of the current status.
C17_Step ==
  \A a \in Actions :
    uiReq[a].phase = "done" /\ uiReq[a].result = "Conflict"
      /\ uiReq'[a].phase = "idle" =>
        /\ view'[ClientOf(a)] = Fetched(campaign')
        /\ CampaignActions(view'[ClientOf(a)], ClientOf(a))
             = CampaignActions(Fetched(campaign'), ClientOf(a))

\* C17: after a request of a client fails with Conflict, the client
\* refreshes its copy of the campaign before it can issue another
\* transition request, so that the actions it then offers are those of the
\* campaign's current status.
C17_RefreshAfterConflict == [][C17_Step]_vars

\* C17, what the dialogs do: after a Conflict the client still shows the
\* campaign as it was, and a dialog that stayed open can send again.
C17_StaleAfterConflict ==
  \E a \in Actions :
    /\ uiReq[a].phase = "idle"
    /\ ui[ClientOf(a)].toast = "error"
    /\ ui[ClientOf(a)].open = a
    /\ view[ClientOf(a)].status = "pending"
    /\ campaign.status = "cancelled"
    /\ a \in CanIssue(ClientOf(a))

(***************************************************************************)
(* C18: createCampaign succeeds only with a budget of at least 1 and an    *)
(* end date strictly after the start date (equal dates are refused); the   *)
(* campaign it creates is pending with its budget held; when the form's    *)
(* validation fails CreateCampaignForm sends no request and no campaign is *)
(* created.                                                                *)
(***************************************************************************)
CreateOk(data) ==
  /\ data.budget >= 1
  /\ data.start_date # NoDate
  /\ data.end_date # NoDate
  /\ data.end_date > data.start_date
  /\ data.end_date # data.start_date

C18_Inv ==
  /\ \A data \in CreateForms : createCampaignSchema(data) => CreateOk(data)
  /\ (create.via = "form" /\ create.phase # "idle")
       => createCampaignSchema(create.data)
  /\ (create.phase = "done" /\ ~CreateOk(create.data))
       => /\ create.result = "ValidationError"
          /\ campaign = NoCampaign
          /\ funds = NoFunds
  /\ (create.phase = "done" /\ create.result = "ok") => CreateOk(create.data)
  /\ campaign.status # "none"
       => /\ CreateOk(create.data)
          /\ campaign.status = "pending"
          /\ campaign.budget = create.data.budget
          /\ funds = [NoFunds EXCEPT !.held = campaign.budget * PercentBase]

C18_Step ==
  /\ (create.phase = "idle" /\ create'.phase = "sent" /\ create'.via = "form")
       => /\ createCampaignSchema(create'.data)
          /\ CreateOk(create'.data)
  /\ campaign' # campaign
       => /\ campaign.status = "none"
          /\ create.phase = "sent"
          /\ CreateOk(create.data)
          /\ create'.result = "ok"
  /\ (create.phase = "sent" /\ create'.phase = "done" /\ ~CreateOk(create.data))
       => UNCHANGED <<campaign, funds>>

C18_CreateValidated == []C18_Inv /\ [][C18_Step]_vars

\* The form's request made a campaign, pending with its budget held.
C18_Witness ==
  /\ create.phase = "idle"
  /\ create.via = "form"
  /\ create.toast = "success"
  /\ campaign.status = "pending"
  /\ funds.held = campaign.budget * PercentBase

(***************************************************************************)
(* C19: after a full page load with the access_token of a valid session in *)
(* localStorage, a protected layout (seller, channel) shows its loading    *)
(* state and does not navigate to /login during the time AuthInitializer   *)
(* has not yet put the user into the auth store; a layout redirects to     *)
(* /login only when no token is present.                                   *)
(***************************************************************************)
AwaitingUser ==
  /\ LayoutOf(auth.path) # "none"
  /\ auth.nav = "load"
  /\ auth.token
  /\ auth.session # NoUser
  /\ auth.store.user = NoUser
  /\ auth.init # "done"

C19_Inv == AwaitingUser => Shows = "loading"

C19_Step ==
  (/\ LayoutOf(auth.path) # "none"
   /\ auth'.path = "/login"
   /\ auth'.nav \in {"push", "replace"}
   /\ auth'.store = auth.store)
    => ~auth.token

C19_LoadingUntilUser == []C19_Inv /\ [][C19_Step]_vars

\* The seller layout has sent a valid session to /login before
\* AuthInitializer was done.
C19_SentToLogin ==
  /\ auth.path = "/login"
  /\ auth.nav = "push"
  /\ auth.token
  /\ auth.session # NoUser
  /\ auth.store.user = NoUser
  /\ auth.init # "done"

(***************************************************************************)
(* C20: whenever the auth store becomes authenticated with a user and an   *)
(* access_token is in localStorage, useWebSocket connects the socket and   *)
(* registers one notification handler; when the user logs out or changes,  *)
(* that handler is removed and the socket disconnected; at no time are two *)
(* handlers registered, so each notification makes exactly one toast.      *)
(***************************************************************************)
Authenticated == auth.store.isAuthenticated /\ auth.store.user # NoUser

\* The effect has run with the store as it is.
EffectCurrent == ws.deps = Deps(auth.store)

C20_Inv ==
  /\ Cardinality(ws.handlers) <= 1
  /\ ws.connected <=> ws.live
  /\ ws.connected => ws.handlers = {ws.ref}
  /\ ~ws.connected => ws.handlers = {}
  /\ (EffectCurrent /\ ~Authenticated) => (~ws.connected /\ ws.handlers = {})
  /\ ws.toasts \in {Undefined, 1}

C20_Step ==
  /\ (ws'.deps # ws.deps /\ ws'.deps # NoDeps /\ Authenticated /\ auth.token)
       => /\ ws'.connected
          /\ Cardinality(ws'.handlers) = 1
          /\ ws.live => ws.ref \notin ws'.handlers
  /\ (ws'.deps # ws.deps /\ ws'.deps # NoDeps /\ ~Authenticated)
       => /\ ~ws'.connected
          /\ ws'.handlers = {}
  /\ (ws'.toasts # ws.toasts /\ ws'.toasts # Undefined) => ws'.toasts = 1

C20_Connects ==
  (Authenticated /\ auth.token /\ ~EffectCurrent)
    ~> \/ ws.connected /\ EffectCurrent /\ Cardinality(ws.handlers) = 1
       \/ ~(Authenticated /\ auth.token)

C20_Disconnects ==
  (ws.connected /\ ~Authenticated)
    ~> (~ws.connected /\ ws.handlers = {}) \/ Authenticated

C20_OneHandler ==
  /\ []C20_Inv
  /\ [][C20_Step]_vars
  /\ C20_Connects
  /\ C20_Disconnects

\* After a change of user the socket is connected with the new run's
\* handler alone, and a notification has made its toast.
C20_Witness ==
  /\ ws.connected
  /\ EffectCurrent
  /\ ws.ref = 2
  /\ ws.handlers = {2}
  /\ ws.toasts = 1

(***************************************************************************)
(* C21: in ConfirmCampaignDialog a submission with confirmed = true passes *)
(* validation whatever the reason field holds, its default empty string    *)
(* included, so the seller who confirms an in_progress campaign with       *)
(* owner_submitted_at set reaches the request without entering a reason.   *)
(***************************************************************************)
ConfirmOffered ==
  /\ CanSubmit("confirm")
  /\ view["seller"].status = "in_progress"
  /\ view["seller"].owner_submitted_at # 0

C21_ConfirmNeedsNoReason ==
  ConfirmOffered
    => /\ confirmSchema(confirmDefaults)
       /\ \A data \in ConfirmForms : data.confirmed => confirmSchema(data)

\* The dialog is open on a submitted campaign and refuses its own defaults.
C21_DefaultsRefused ==
  /\ ConfirmOffered
  /\ campaign.status = "in_progress"
  /\ ~confirmSchema(confirmDefaults)

(***************************************************************************)
(* C22: when the seller opens a dispute in ConfirmCampaignDialog, the      *)
(* reason that passed validation is carried in the confirmCampaign request: *)
(* the reason received with the request is the reason the seller entered.  *)
(***************************************************************************)
C22_Step ==
  (/\ uiReq["confirm"].phase = "idle"
   /\ uiReq'["confirm"].phase # "idle"
   /\ ~uiReq'["confirm"].p.confirmed)
    => \E data \in ConfirmForms :
         /\ ~data.confirmed
         /\ confirmSchema(data)
         /\ uiReq'["confirm"].p.reason = data.reason

C22_DisputeReasonCarried == [][C22_Step]_vars

\* A dispute sent from the dialog has arrived without a reason and was
\* refused for it.
C22_ReasonDropped ==
  /\ uiReq["confirm"].phase = "done"
  /\ ~uiReq["confirm"].p.confirmed
  /\ uiReq["confirm"].p.reason = Undefined
  /\ uiReq["confirm"].result = "ValidationError"
  /\ campaign.status = "in_progress"

(***************************************************************************)
(* C23: for each lifecycle action (accept, reject, submit placement,       *)
(* confirm or dispute, cancel) one client never has two requests of that   *)
(* action in flight at the same time: while a request is outstanding the   *)
(* control that sends it cannot send another.                              *)
(***************************************************************************)
RequestsOut(a) ==
  (IF uiReq[a].phase # "idle" THEN 1 ELSE 0)
    + (IF a = "cancel" /\ again.phase # "idle" THEN 1 ELSE 0)

C23_Inv == \A a \in Actions : RequestsOut(a) <= 1

C23_Step ==
  \A a \in Actions :
    RequestsOut(a) >= 1 => RequestsOut(a)' <= RequestsOut(a)

C23_OneRequestPerControl == []C23_Inv /\ [][C23_Step]_vars

\* Two cancel requests of the seller's button are in flight.
C23_TwoCancels ==
  /\ uiReq["cancel"].phase = "validated"
  /\ again.phase = "validated"
  /\ campaign.status = "pending"

(***************************************************************************)
(* C24: a successful login is never undone by AuthInitializer: in every    *)
(* interleaving of its start-up user fetch (made with the token found at   *)
(* mount) with a LoginForm submission, once LoginForm has stored the new   *)
(* tokens and put the user into the store, the tokens stay in localStorage *)
(* and the user stays logged in until an explicit logout.                  *)
(***************************************************************************)
\* LoginForm has logged the user in and the page has not been left.
LoggedInByForm ==
  /\ auth.form = "user"
  /\ auth.session # NoUser

C24_Step ==
  (LoggedInByForm /\ LoggedInByForm' /\ auth.token /\ Authenticated)
    => /\ auth'.token
       /\ auth'.store.isAuthenticated
       /\ auth'.store.user # NoUser

C24_LoginStays == [][C24_Step]_vars

\* The login of the form is undone: the session is valid, the token and the
\* user are gone, and no logout has been asked for.
C24_LoginUndone ==
  /\ LoggedInByForm
  /\ ~auth.token
  /\ ~auth.store.isAuthenticated
  /\ auth.init = "done"

(***************************************************************************)
(* C25: a logged-in user who opens a route of another role's area is sent  *)
(* to the dashboard of their own role, the URL that login uses:            *)
(* /seller/dashboard for seller, /channel/dashboard for channel_owner,     *)
(* /admin/dashboard for admin; for every layout and every user type.       *)
(***************************************************************************)
\* The layout of the area of a user type.
AreaOf(user) == LayoutOf(DashboardUrl(user))

\* A logged-in user is in another role's area.
InOtherArea ==
  /\ LayoutOf(auth.path) # "none"
  /\ Authenticated
  /\ AreaOf(auth.store.user) # LayoutOf(auth.path)

C25_Inv == InOtherArea => auth.deps # Deps(auth.store)

C25_Step ==
  (InOtherArea /\ auth'.path # auth.path /\ auth'.store = auth.store
     /\ auth'.nav \in {"push", "replace"})
    => auth'.path = DashboardUrl(auth.store.user)

C25_OwnDashboard == []C25_Inv /\ [][C25_Step]_vars

\* The seller layout has sent a channel owner to a path that is no route.
C25_NoSuchDashboard ==
  /\ auth.path = "/channel_owner/dashboard"
  /\ auth.nav = "push"
  /\ auth.store.user = "channel_owner"
  /\ auth.store.isAuthenticated

(***************************************************************************)
(* C26: CreateCampaignForm sends createCampaign only when the seller's     *)
(* balance has been loaded and the budget is at most that balance; while   *)
(* the balance is unknown, or after the balance request failed (balance    *)
(* taken as 0), no create request is sent for any budget.                  *)
(***************************************************************************)
C26_Inv ==
  /\ (create.via = "form" /\ create.phase # "idle")
       => /\ create.balance # Undefined
          /\ create.balance >= 1
          /\ create.data.budget <= create.balance
  /\ \A data \in CreateForms, b \in {Undefined, 0} :
       ~(createCampaignSchema(data) /\ hasEnoughBalance(b, data.budget))

C26_Step ==
  (create.phase = "idle" /\ create'.phase = "sent" /\ create'.via = "form")
    => /\ create.balance # Undefined
       /\ create.balance # 0
       /\ create'.data.budget <= create.balance
       /\ create'.balance = create.balance

C26_BalanceCovers == []C26_Inv /\ [][C26_Step]_vars

\* The form has sent a request for a budget that is the whole balance.
C26_Witness ==
  /\ create.via = "form"
  /\ create.phase = "sent"
  /\ create.data.budget = create.balance
  /\ create.data.budget = 10000

(***************************************************************************)
(* C27: WithdrawalForm sends createWithdrawal only with an amount a such   *)
(* that 100 <= a <= availableBalance; for every available balance below    *)
(* 100 no withdrawal request can be sent; and the amount field never holds *)
(* a value above the available balance after an edit.                      *)
(***************************************************************************)
C27_Inv ==
  /\ wd.phase = "sent" => wd.sent >= MinWithdrawal
  /\ \A value \in WithdrawalInputs, balance \in WithdrawalBalances :
       amountOnChange(value, balance) <= balance
  /\ (wd.mounted /\ wd.availableBalance < MinWithdrawal /\ wd.phase = "idle")
       => ~ENABLED WithdrawalOnSubmit

C27_Step ==
  /\ (wd.phase = "idle" /\ wd'.phase = "sent")
       => /\ wd'.sent = wd.amount
          /\ MinWithdrawal <= wd'.sent
          /\ wd'.sent <= wd.availableBalance
          /\ wd.availableBalance >= MinWithdrawal
  /\ (wd.mounted /\ wd'.mounted /\ wd'.amount # wd.amount)
       => wd'.amount <= wd'.availableBalance

C27_WithdrawalAmount == []C27_Inv /\ [][C27_Step]_vars

\* A value over the balance was typed and the whole balance is being
\* withdrawn.
C27_Witness ==
  /\ wd.phase = "sent"
  /\ wd.sent = 150
  /\ wd.availableBalance = 150

(***************************************************************************)
(* C28: in WithdrawalTable approveWithdrawal is sent only for a withdrawal *)
(* shown as pending and rejectWithdrawal only for one shown as pending or  *)
(* processing; rejectWithdrawal is never sent with blank notes; and after  *)
(* a request that was refused for blank notes or that failed, the table is *)
(* no longer in the processing state.                                      *)
(***************************************************************************)
C28_Inv ==
  /\ wt.sent.type = "approve" => wt.sent.status = "pending"
  /\ wt.sent.type = "reject"
       => /\ wt.sent.status \in {"pending", "processing"}
          /\ wt.sent.notes = "x"
  /\ wt.isProcessing <=> wt.sent # NoAction
  /\ \A notes \in {"", " "} :
       LET t == confirmAction([wt EXCEPT !.notes = notes, !.isProcessing = FALSE])
       IN (wt.actionType = "reject" /\ wt.selected # "none")
            => (t.sent = NoAction /\ ~t.isProcessing)

C28_Step ==
  /\ (wt.sent = NoAction /\ wt'.sent # NoAction)
       => /\ wt'.sent.status = wt.selected
          /\ wt.open
          /\ ~wt.isProcessing
  /\ (wt.sent # NoAction /\ wt'.sent = NoAction) => ~wt'.isProcessing

C28_TableActions == []C28_Inv /\ [][C28_Step]_vars

\* A reject of a processing withdrawal has failed and the dialog is usable
\* again.
C28_Witness ==
  /\ wt.sent = NoAction
  /\ wt.toast = "error"
  /\ wt.open
  /\ wt.actionType = "reject"
  /\ wt.selected = "processing"
  /\ wt.notes = "x"
  /\ ~wt.isProcessing

(***************************************************************************)
(* C29: a resolveDispute request with decision partial_refund always       *)
(* carries a numeric refund_amount with 0 <= refund_amount <= the          *)
(* campaign's budget; with decision refund or release_payment it carries   *)
(* no refund_amount; and no resolveDispute request is sent with blank      *)
(* notes.                                                                  *)
(***************************************************************************)
C29_ResolveRequest ==
  dp.sent # NoResolve
    => /\ dp.sent.payload.decision = "partial_refund"
            => /\ dp.sent.payload.refund_amount \notin {Undefined, NaN}
               /\ dp.budget # Undefined
               /\ 0 <= dp.sent.payload.refund_amount
               /\ dp.sent.payload.refund_amount <= dp.budget
       /\ dp.sent.payload.decision \in {"refund", "release_payment"}
            => dp.sent.payload.refund_amount = Undefined
       /\ Trim(dp.sent.notes) # ""

\* A partial refund of more than the budget is on its way.
C29_OverBudget ==
  /\ dp.sent # NoResolve
  /\ dp.sent.payload.decision = "partial_refund"
  /\ dp.budget # Undefined
  /\ dp.sent.payload.refund_amount > dp.budget
  /\ dp.sent.notes = "x"

(***************************************************************************)
(* C30: for every campaign state reachable through the lifecycle the steps *)
(* that CampaignTimeline marks completed form a prefix of Created,         *)
(* Accepted (or Rejected/Cancelled), Placement Submitted, Confirmed by     *)
(* Seller, Completed: whenever a step is marked completed, every earlier   *)
(* step is marked completed too.                                           *)
(***************************************************************************)
C30_CompletedPrefix ==
  campaign.status # "none"
    => \A i \in DOMAIN TimelineSteps : \A j \in DOMAIN TimelineSteps :
         (j < i /\ StepCompleted(campaign, TimelineSteps[i]))
           => StepCompleted(campaign, TimelineSteps[j])

\* A disputed campaign: Placement Submitted is marked completed, Accepted is
\* not.
C30_DisputedGap ==
  /\ campaign.status = "disputed"
  /\ StepCompleted(campaign, "submitted")
  /\ ~StepCompleted(campaign, "accepted")

====
